---- MODULE Spec2Model ----
(***************************************************************************)
(* DogStatsd client (datadog/dogstatsd/base.py): the buffering/flush       *)
(* engine, the socket layer with its failure classification, and the       *)
(* self-telemetry counters.                                                *)
(*                                                                         *)
(* One action per public operation of the client (and one for a wake-up of *)
(* the background flush thread).  Every operation is modelled whole: the   *)
(* helpers it calls are operators over a record of the client's mutable    *)
(* fields, composed the way the code composes the calls.                   *)
(*                                                                         *)
(* Where threads meet (the socket handles under _socket_lock, the buffer   *)
(* under _buffer_lock, the mode toggle under _buffering_toggle_lock and    *)
(* the flush thread) the methods are cut into one action per statement,    *)
(* with a program counter and locals per thread: SpecSockets, SpecThreads. *)
(*                                                                         *)
(* Lengths are scaled: a packet is an identity plus a length, the payload  *)
(* ceiling is a handful of bytes, time is an integer clock.                *)
(***************************************************************************)
EXTENDS Integers, Sequences, FiniteSets, TLC

\* ------------------------------------------------------------------ bounds
\* number of packets the calls of a run produce: in the runs that exercise the
\* buffer and the buffering mode, in the runs that exercise the transport
MaxBufferedCalls == 2
MaxTransportCalls == 2
\* how deep the re-entrant toggle lock may be held by open_buffer
MaxDepth == 1
\* number of sockets created in the runs that interleave threads in the
\* socket layer
MaxSockets == 3
\* in the runs that interleave threads in the buffer and the mode toggle:
\* number of calls of public methods the threads make, number of flush
\* threads created, and how many times open_buffer may hold the re-entrant
\* toggle lock
MaxThreadOps == 3
MaxFlushThreads == 2
MaxScopeDepth == 2
\* number of metric calls in the runs that exercise the serialization
MaxSerializedCalls == 1

\* --------------------------------------------------------- program constants
\* self._max_payload_size (max_buffer_len, or the default of the transport),
\* in scaled bytes
MaxPayloadSize == 4
\* MIN_FLUSH_INTERVAL (0.0001 s), in clock units
MIN_FLUSH_INTERVAL == 0
\* the intervals a client may be constructed with: at the minimum, above it
FlushIntervals == {MIN_FLUSH_INTERVAL, MIN_FLUSH_INTERVAL + 1}
\* telemetry_min_flush_interval, in clock units
TelemetryFlushInterval == 0
\* len(string) > 8 * 1024 in event(), scaled: one above the payload ceiling
EVENT_SIZE_LIMIT == MaxPayloadSize + 1
\* length of TELEMETRY_FORMATTING_STR without its seven counter values
TELEMETRY_OVERHEAD == 3

None == 0

\* the lengths of the serialized packets the calls produce
MetricLens == {1, 2}
EventLens == {EVENT_SIZE_LIMIT, EVENT_SIZE_LIMIT + 1}
ServiceCheckLens == {1}

\* ------------------------------------------------- outcomes of the transport
\* what get_socket can raise when it has to create and connect a socket
ConnErrors == {"resolution", "EOTHER"}
\* what socket.send can raise
SendErrors ==
    {"timeout", "resolution", "EAGAIN", "ENOBUFS", "EMSGSIZE", "EOTHER", "exception"}
\* the errors drawn for the transmission of a telemetry packet: one that keeps
\* the socket, one that closes it
TelemetrySendErrors == {"EAGAIN", "EOTHER"}
Unused == [conn |-> "unused", send |-> "none"]
Outcomes ==
    {[conn |-> c, send |-> x] : c \in {"cached", "ok"}, x \in {"ok"} \cup SendErrors}
        \cup {[conn |-> c, send |-> "none"] : c \in ConnErrors}
\* the main thread is interrupted in socket.send (a BaseException, not a
\* failure of the transport)
Interrupts ==
    {[conn |-> c, send |-> "KeyboardInterrupt"] : c \in {"cached", "ok"}}
TelemetryOutcomes ==
    {o \in Outcomes : o.send \in {"ok", "none"} \cup TelemetrySendErrors}

VARIABLES
    \* configuration, fixed by the constructor
    _enabled, _flush_interval, dedicated_telemetry,
    \* what the constructor fixes for the serialization of the metrics
    namespace, constant_tags, default_sample_rate, _container_id,
    \* buffer
    _buffer, _current_buffer_total_size,
    \* buffering mode and flush scheduler
    _send, _disable_buffering, _flush_thread, _flush_thread_stop,
    flush_threads_alive, toggle_lock_depth,
    \* sockets: the cached handles (file descriptors) and the open sockets
    socket, telemetry_socket, open_sockets,
    \* telemetry
    _telemetry, metrics_count, events_count, service_checks_count,
    bytes_sent, bytes_dropped, packets_sent, packets_dropped,
    \* time.time() - self._last_flush_time, counted up to the first instant at
    \* which _is_telemetry_flush_time() holds
    since_last_flush,
    \* the number of report/event/service_check calls made that got as far
    \* as counting or serializing their packet
    calls,
    \* the last operation: its name and arguments, the exception it raised,
    \* the flush() calls it made and the transmit attempts it made
    op, raised, flush_calls, xmits,
    \* history: per packet, the number of payloads handed to the transport
    \* that held it
    handed,
    \* threads that run the client's methods statement by statement: where
    \* each one is and its local variables
    pc, local,
    \* self._socket_lock: the thread that holds it, or "free"
    _socket_lock,
    \* history: the destination of every socket created, in order of creation
    \* (a socket object is named by its position)
    sockets_created,
    \* self._buffer_lock, an RLock: the thread that holds it, or "free", and
    \* how many times it holds it
    _buffer_lock,
    \* self._buffering_toggle_lock, an RLock: the thread that holds it, or
    \* "free" (toggle_lock_depth is how many times)
    toggle_lock_owner,
    \* the number of Thread objects _start_flush_thread has created
    flush_threads_created,
    \* history: the packets whose _send_to_buffer call has completed, in the
    \* order of completion (for the threads in the telemetry: the calls that
    \* have returned, each with its kind)
    completed,
    \* the number of calls of public methods the threads have started
    started

serializer_vars == <<namespace, constant_tags, default_sample_rate, _container_id>>
config_vars == <<_enabled, _flush_interval, dedicated_telemetry, serializer_vars>>
buffer_vars == <<_buffer, _current_buffer_total_size>>
mode_vars == <<_send, _disable_buffering, _flush_thread, _flush_thread_stop,
               flush_threads_alive, toggle_lock_depth>>
socket_vars == <<socket, telemetry_socket, open_sockets>>
counter_vars == <<metrics_count, events_count, service_checks_count,
                  bytes_sent, bytes_dropped, packets_sent, packets_dropped>>
telemetry_vars == <<_telemetry, counter_vars, since_last_flush>>
flag_vars == <<_send, _disable_buffering>>
sched_vars == <<_flush_thread, _flush_thread_stop, flush_threads_alive,
                flush_threads_created>>
toggle_vars == <<toggle_lock_owner, toggle_lock_depth>>
log_vars == <<xmits, handed, calls, completed, started, raised>>
thread_vars == <<pc, local, _socket_lock, sockets_created, _buffer_lock,
                 toggle_lock_owner, flush_threads_created, completed, started>>
vars == <<config_vars, buffer_vars, mode_vars, socket_vars, telemetry_vars,
          calls, op, raised, flush_calls, xmits, handed, thread_vars>>

\* ------------------------------------------------------------------ helpers
RECURSIVE SumLen(_)
SumLen(seq) == IF seq = <<>> THEN 0 ELSE Head(seq).len + SumLen(Tail(seq))

Ids(seq) == [i \in 1..Len(seq) |-> seq[i].id]

Digits(n) == IF n < 10 THEN 1 ELSE IF n < 100 THEN 2 ELSE 3

\* The mutable fields of the client, as the record the helpers work on.
Client ==
    [_buffer |-> _buffer,
     _current_buffer_total_size |-> _current_buffer_total_size,
     _send |-> _send,
     _disable_buffering |-> _disable_buffering,
     _flush_thread |-> _flush_thread,
     _flush_thread_stop |-> _flush_thread_stop,
     flush_threads_alive |-> flush_threads_alive,
     toggle_lock_depth |-> toggle_lock_depth,
     socket |-> socket,
     telemetry_socket |-> telemetry_socket,
     open_sockets |-> open_sockets,
     metrics_count |-> metrics_count,
     events_count |-> events_count,
     service_checks_count |-> service_checks_count,
     bytes_sent |-> bytes_sent,
     bytes_dropped |-> bytes_dropped,
     packets_sent |-> packets_sent,
     packets_dropped |-> packets_dropped,
     since_last_flush |-> since_last_flush,
     handed |-> handed,
     raised |-> "none",
     flush_calls |-> 0,
     xmits |-> <<>>,
     bad |-> FALSE]

Counters(s) ==
    [metrics_count |-> s.metrics_count,
     events_count |-> s.events_count,
     service_checks_count |-> s.service_checks_count,
     bytes_sent |-> s.bytes_sent,
     bytes_dropped |-> s.bytes_dropped,
     packets_sent |-> s.packets_sent,
     packets_dropped |-> s.packets_dropped]

\* F applied to the value of e: the statements F that follow an assignment of
\* e to a local variable
With(e, F(_)) == CHOOSE r \in {F(x) : x \in {e}} : TRUE

\* An outcome was drawn for a transmit attempt that is not made.
NoXmit(s, o) == [s EXCEPT !.bad = @ \/ o # Unused]
NoXmits(s, o1, o2) == NoXmit(NoXmit(s, o1), o2)

\* ------------------------------------------------------------ socket layer
\* _dedicated_telemetry_destination(): fixed by the constructor's arguments
_dedicated_telemetry_destination == dedicated_telemetry

\* close_socket that closes both sockets and keeps their handles cached
close_socket_keeping_handles(s) ==
    [s EXCEPT !.open_sockets = @ \ {s.socket, s.telemetry_socket}]

\* close_socket(): closes and forgets both cached handles
close_socket(s) ==
    [s EXCEPT !.open_sockets = @ \ {s.socket, s.telemetry_socket},
              !.socket = None,
              !.telemetry_socket = None]

\* get_socket(telemetry): the cached handle, or a socket created, connected
\* and cached; conn is what the creation does ("ok" or the error it raises)
get_socket(s, telemetry, conn) ==
    LET ded == telemetry /\ _dedicated_telemetry_destination
        cached == IF ded THEN s.telemetry_socket ELSE s.socket
        \* the file descriptor of the new socket: the lowest one not in use
        fresh == CHOOSE fd \in 1..(Cardinality(s.open_sockets) + 1) :
                   /\ fd \notin s.open_sockets
                   /\ \A lower \in 1..(fd - 1) : lower \in s.open_sockets
    IN  IF cached # None
        THEN [s |-> s, sock |-> cached, err |-> "none"]
        ELSE IF conn = "ok"
        THEN [s |-> IF ded
                    THEN [s EXCEPT !.telemetry_socket = fresh,
                                   !.open_sockets = @ \cup {fresh}]
                    ELSE [s EXCEPT !.socket = fresh,
                                   !.open_sockets = @ \cup {fresh}],
              sock |-> fresh, err |-> "none"]
        ELSE [s |-> s, sock |-> None, err |-> conn]

\* the except clauses without the last one, which catches every Exception
ExceptClause_without_catch_all(err) ==
    CASE err = "timeout" -> "pass"
      [] err = "resolution" -> "close_socket"
      [] err \in {"EAGAIN", "ENOBUFS", "EMSGSIZE"} -> "log"
      [] err = "EOTHER" -> "close_socket"
      [] OTHER -> "raise"

\* the except clauses with a socket.error clause that closes the socket for
\* every errno
ExceptClause_closing_on_every_errno(err) ==
    CASE err = "timeout" -> "pass"
      [] err = "resolution" -> "close_socket"
      [] err \in {"EAGAIN", "ENOBUFS", "EMSGSIZE"} -> "close_socket"
      [] err = "EOTHER" -> "close_socket"
      [] err = "KeyboardInterrupt" -> "raise"
      [] OTHER -> "log"

\* the except clauses of _xmit_packet: what the clause that catches err does
\* ("pass" and "log" keep the socket, "close_socket" closes it; no clause
\* re-raises, the last one catches every Exception; a KeyboardInterrupt is
\* no Exception and goes through them all, "raise")
ExceptClause(err) ==
    CASE err = "timeout" -> "pass"
      [] err = "resolution" -> "close_socket"
      [] err \in {"EAGAIN", "ENOBUFS", "EMSGSIZE"} -> "log"
      [] err = "EOTHER" -> "close_socket"
      [] err = "KeyboardInterrupt" -> "raise"
      [] OTHER -> "log"

\* the sent counters that count the packet and not its bytes
CountSent_packets_only(s, packet) ==
    [s EXCEPT !.packets_sent = @ + 1]

\* _xmit_packet after the send: packets_sent += 1, bytes_sent += len(packet)
CountSent(s, packet) ==
    [s EXCEPT !.packets_sent = @ + 1, !.bytes_sent = @ + packet.len]

\* the dropped counters without the newline that _send_to_server appended
CountDropped_without_newline(s, packet) ==
    [s EXCEPT !.bytes_dropped = @ + packet.len - 1, !.packets_dropped = @ + 1]

\* _xmit_packet after the except clauses: bytes_dropped += len(packet),
\* packets_dropped += 1
CountDropped(s, packet) ==
    [s EXCEPT !.bytes_dropped = @ + packet.len, !.packets_dropped = @ + 1]

\* _xmit_packet(packet, is_telemetry) -> [s, ok]
\* o is what the transport does in this attempt
_xmit_packet(s, packet, is_telemetry, o) ==
    LET ded == is_telemetry /\ _dedicated_telemetry_destination
        cached == IF ded THEN s.telemetry_socket ELSE s.socket
        applies == /\ o # Unused
                   /\ (o.conn = "cached") = (cached # None)
        count == ~is_telemetry /\ _telemetry
    IN  With(IF cached # None
             THEN [s |-> s, sock |-> cached, err |-> "none"]
             ELSE get_socket(s, is_telemetry, o.conn), LAMBDA g :
        With(IF g.err # "none" THEN g.err
             ELSE IF o.send = "ok" THEN "none" ELSE o.send, LAMBDA err :
        With(IF err = "none" THEN "none" ELSE ExceptClause(err), LAMBDA clause :
        With(IF clause = "close_socket" THEN close_socket(g.s) ELSE g.s, LAMBDA s1 :
        With(IF ~count \/ clause = "raise" THEN s1
             ELSE IF err = "none" THEN CountSent(s1, packet)
             ELSE CountDropped(s1, packet), LAMBDA s2 :
          [s |-> [s2 EXCEPT
                    !.xmits = Append(@,
                      [telemetry |-> is_telemetry,
                       ids |-> packet.ids,
                       len |-> packet.len,
                       conn |-> o.conn,
                       err |-> err,
                       phase |-> IF g.err # "none" THEN "connect" ELSE "send",
                       sock_before |-> cached,
                       sock_used |-> g.sock,
                       sock_after |-> IF ded THEN s2.telemetry_socket
                                      ELSE s2.socket,
                       open_after |-> s2.open_sockets,
                       telemetry_on |-> _telemetry,
                       before |-> Counters(s),
                       after |-> Counters(s2)]),
                    !.handed = [i \in DOMAIN @ |->
                                  IF \E k \in 1..Len(packet.ids) : packet.ids[k] = i
                                  THEN @[i] + 1 ELSE @[i]],
                    !.raised = IF clause = "raise" THEN err ELSE @,
                    !.bad = @ \/ ~applies],
           ok |-> err = "none"])))))

\* ---------------------------------------------------------------- telemetry
\* _reset_telemetry that keeps the dropped counters
_reset_telemetry_keeping_dropped(s) ==
    [s EXCEPT !.metrics_count = 0,
              !.events_count = 0,
              !.service_checks_count = 0,
              !.bytes_sent = 0,
              !.packets_sent = 0,
              !.since_last_flush = 0]

\* _reset_telemetry()
_reset_telemetry(s) ==
    [s EXCEPT !.metrics_count = 0,
              !.events_count = 0,
              !.service_checks_count = 0,
              !.bytes_sent = 0,
              !.bytes_dropped = 0,
              !.packets_sent = 0,
              !.packets_dropped = 0,
              !.since_last_flush = 0]

\* _flush_telemetry(): the telemetry packet, its seven counter values formatted
\* into TELEMETRY_FORMATTING_STR
_flush_telemetry(s) ==
    [ids |-> <<>>,
     counters |-> Counters(s),
     len |-> TELEMETRY_OVERHEAD
               + Digits(s.metrics_count) + Digits(s.events_count)
               + Digits(s.service_checks_count) + Digits(s.bytes_sent)
               + Digits(s.bytes_dropped) + Digits(s.packets_sent)
               + Digits(s.packets_dropped)]

\* a test that holds as soon as the interval is reached
_is_telemetry_flush_time_at_the_interval(s) ==
    _telemetry /\ TelemetryFlushInterval <= s.since_last_flush

\* _is_telemetry_flush_time()
_is_telemetry_flush_time(s) ==
    _telemetry /\ TelemetryFlushInterval < s.since_last_flush

\* the packet handed to _xmit_packet as it is, without the newline
WithNewline_without_newline(packet) == packet

\* packet + '\n'
WithNewline(packet) == [packet EXCEPT !.len = @ + 1]

\* what _send_to_server does after a telemetry packet was transmitted
TelemetrySent(s, telemetry) ==
    LET r == _reset_telemetry(s)
    IN  [r EXCEPT !.packets_sent = @ + 1, !.bytes_sent = @ + telemetry.len]

\* a drop of the telemetry packet that leaves _last_flush_time as it was
TelemetryDropped_keeping_flush_time(s, telemetry) ==
    [s EXCEPT !.bytes_dropped = @ + telemetry.len,
              !.packets_dropped = @ + 1]

\* what _send_to_server does after a telemetry packet was dropped
TelemetryDropped(s, telemetry) ==
    [s EXCEPT !.since_last_flush = 0,
              !.bytes_dropped = @ + telemetry.len,
              !.packets_dropped = @ + 1]

\* _send_to_server(packet): o1 is the outcome of the transmission of the
\* packet, o2 of the telemetry packet that may follow it
_send_to_server(s, packet, o1, o2) ==
    With(_xmit_packet(s, WithNewline(packet), FALSE, o1), LAMBDA r1 :
      IF r1.s.raised # "none" THEN NoXmit(r1.s, o2)
      ELSE IF _is_telemetry_flush_time(r1.s)
      THEN With(_flush_telemetry(r1.s), LAMBDA telemetry :
           With(_xmit_packet(r1.s, telemetry, TRUE, o2), LAMBDA r2 :
             IF r2.s.raised # "none" THEN r2.s
             ELSE IF r2.ok THEN TelemetrySent(r2.s, telemetry)
             ELSE TelemetryDropped(r2.s, telemetry)))
      ELSE NoXmit(r1.s, o2))

\* ------------------------------------------------------------------- buffer
\* _reset_buffer that empties the list and keeps the size
_reset_buffer_keeping_size(s) ==
    [s EXCEPT !._buffer = <<>>]

\* _reset_buffer()
_reset_buffer(s) ==
    [s EXCEPT !._current_buffer_total_size = 0, !._buffer = <<>>]

\* "\n".join(self._buffer)
Join(buffer) ==
    [ids |-> Ids(buffer), len |-> SumLen(buffer) + (Len(buffer) - 1)]

\* flush()
flush(s, o1, o2) ==
    With([s EXCEPT !.flush_calls = @ + 1], LAMBDA s1 :
      IF s1._buffer # <<>>
      THEN With(Join(s1._buffer), LAMBDA payload :
           With(_send_to_server(s1, payload, o1, o2), LAMBDA s2 :
             IF s2.raised # "none" THEN s2 ELSE _reset_buffer(s2)))
      ELSE NoXmit(NoXmit(s1, o1), o2))

\* _should_flush that leaves out the separator byte of the packet to add
_should_flush_without_separator(s, length_to_be_added) ==
    s._current_buffer_total_size + length_to_be_added > MaxPayloadSize

\* _should_flush(length_to_be_added)
_should_flush(s, length_to_be_added) ==
    s._current_buffer_total_size + length_to_be_added + 1 > MaxPayloadSize

\* _send_to_buffer that appends the packet and then flushes a full buffer
_send_to_buffer_append_first(s, packet, o1, o2) ==
    With([s EXCEPT !._buffer = Append(@, packet),
                   !._current_buffer_total_size = @ + packet.len + 1], LAMBDA s1 :
      IF s1._current_buffer_total_size > MaxPayloadSize
      THEN flush(s1, o1, o2)
      ELSE NoXmits(s1, o1, o2))

\* _send_to_buffer(packet); packet is the serialized metric, event or check
_send_to_buffer(s, packet, o1, o2) ==
    With(IF _should_flush(s, packet.len)
         THEN flush(s, o1, o2)
         ELSE NoXmit(NoXmit(s, o1), o2), LAMBDA s1 :
      IF s1.raised # "none" THEN s1
      ELSE [s1 EXCEPT !._buffer = Append(@, packet),
                      !._current_buffer_total_size = @ + packet.len + 1])

\* self._send(packet): the send path in force
Send(s, packet, o1, o2) ==
    IF s._send = "_send_to_buffer"
    THEN _send_to_buffer(s, packet, o1, o2)
    ELSE _send_to_server(s, [ids |-> <<packet.id>>, len |-> packet.len], o1, o2)

\* ------------------------------------------------- mode and flush scheduler
\* _start_flush_thread(flush_interval)
_start_flush_thread(s) ==
    IF s._disable_buffering \/ _flush_interval <= MIN_FLUSH_INTERVAL
    THEN s
    ELSE [s EXCEPT !._flush_thread = "Thread",
                   !.flush_threads_alive = @ + 1]

\* _stop_flush_thread(): the attribute _flush_thread exists only once
\* _start_flush_thread has created a thread; join() returns when the loop of
\* the thread has seen the stop signal and ended
_stop_flush_thread(s, o1, o2) ==
    IF s._flush_thread = "unset"
    THEN NoXmits([s EXCEPT !.raised = "AttributeError"], o1, o2)
    ELSE IF s._flush_thread = "None"
    THEN NoXmits(s, o1, o2)
    ELSE With(flush(s, o1, o2), LAMBDA s1 :
           IF s1.raised # "none" THEN s1
           ELSE [s1 EXCEPT !.flush_threads_alive = @ - 1,
                           !._flush_thread = "None",
                           !._flush_thread_stop = FALSE])

\* a setter that goes through the transition whatever the current value
set_disable_buffering_without_noop(s, is_disabled, o1, o2) ==
    IF is_disabled
    THEN With([s EXCEPT !._disable_buffering = is_disabled,
                        !._send = "_send_to_server"], LAMBDA s1 :
           _stop_flush_thread(s1, o1, o2))
    ELSE With([NoXmits(s, o1, o2) EXCEPT
                 !._disable_buffering = is_disabled,
                 !._send = "_send_to_buffer"], LAMBDA s1 :
           _start_flush_thread(s1))

\* the setter of disable_buffering
set_disable_buffering(s, is_disabled, o1, o2) ==
    IF s._disable_buffering = is_disabled
    THEN NoXmits(s, o1, o2)
    ELSE IF is_disabled
    THEN With([s EXCEPT !._disable_buffering = is_disabled,
                        !._send = "_send_to_server"], LAMBDA s1 :
           _stop_flush_thread(s1, o1, o2))
    ELSE With([NoXmits(s, o1, o2) EXCEPT
                 !._disable_buffering = is_disabled,
                 !._send = "_send_to_buffer",
                 \* history: the packets in the buffer were appended
                 \* before this enabling of buffering
                 !._buffer = [i \in DOMAIN @ |->
                                [@[i] EXCEPT !.before_enable = TRUE]]], LAMBDA s1 :
           _start_flush_thread(s1))

\* open_buffer()
open_buffer(s) ==
    _reset_buffer([s EXCEPT !.toggle_lock_depth = @ + 1,
                            !._send = "_send_to_buffer"])

\* close_buffer() with the statements of the finally clause after the flush,
\* outside of a try statement
close_buffer_without_finally(s, o1, o2) ==
    With(flush(s, o1, o2), LAMBDA s1 :
      IF s1.raised # "none" THEN s1
      ELSE IF s1._disable_buffering
      THEN [s1 EXCEPT !._send = "_send_to_server", !.toggle_lock_depth = @ - 1]
      ELSE [s1 EXCEPT !.toggle_lock_depth = @ - 1])

\* close_buffer(): the finally clause runs whether or not flush() raised
close_buffer(s, o1, o2) ==
    With(flush(s, o1, o2), LAMBDA s1 :
      IF s1._disable_buffering
      THEN [s1 EXCEPT !._send = "_send_to_server", !.toggle_lock_depth = @ - 1]
      ELSE [s1 EXCEPT !.toggle_lock_depth = @ - 1])

\* ---------------------------------------------------------------- reporting
\* _report(metric, metric_type, value, tags, sample_rate); packet is the
\* serialized metric, sampled_out is random() > sample_rate
_report(s, packet, value, sampled_out, o1, o2) ==
    IF value = "None" THEN NoXmits(s, o1, o2)
    ELSE IF ~_enabled THEN NoXmits(s, o1, o2)
    ELSE With(IF _telemetry THEN [s EXCEPT !.metrics_count = @ + 1] ELSE s,
              LAMBDA s1 :
           IF sampled_out THEN NoXmits(s1, o1, o2)
           ELSE Send(s1, packet, o1, o2))

\* event(title, message, ...); packet is the serialized event
event(s, packet, o1, o2) ==
    IF packet.len > EVENT_SIZE_LIMIT
    THEN NoXmits([s EXCEPT !.raised = "ValueError"], o1, o2)
    ELSE With(IF _telemetry THEN [s EXCEPT !.events_count = @ + 1] ELSE s,
              LAMBDA s1 : Send(s1, packet, o1, o2))

\* The characters of a serialized event that are not of its title or message
\* (the shortest framing, "_e{n,m}:" and "|", scaled like the size limit).
EVENT_FRAMING == 1

\* The characters of title and message together, and the bytes that utf-8
\* takes for one character of them (ASCII text, or text of two-byte
\* characters).
EventTextChars == {EVENT_SIZE_LIMIT - EVENT_FRAMING, EVENT_SIZE_LIMIT}
Utf8Widths == {1, 2}

\* len(title.encode("utf8", "replace")) + len(message.encode("utf8", "replace"))
Utf8Len(chars, width) == chars * width

\* len(string) of the serialized event: a count of characters
EventStringLen(chars) == EVENT_FRAMING + chars

\* service_check(check_name, status, ...); packet is the serialized check
service_check(s, packet, o1, o2) ==
    With(IF _telemetry THEN [s EXCEPT !.service_checks_count = @ + 1] ELSE s,
         LAMBDA s1 : Send(s1, packet, o1, o2))

\* ------------------------------------------------------------------ actions
\* What the transport may do in the transmission of a payload (O1) and in the
\* transmission of the telemetry packet that may follow it (O2), for an
\* operation that transmits a payload (xmit) or does not. An operation that
\* makes no attempt takes Unused: Done rejects every draw that does not fit
\* the attempts the operation made.
O1(xmit) ==
    IF xmit
    THEN {o \in Outcomes : (o.conn = "cached") = (socket # None)}
    ELSE {Unused}
O2(xmit) ==
    IF xmit /\ _is_telemetry_flush_time(Client)
    THEN TelemetryOutcomes
    ELSE {Unused}

\* self._send(packet) of a packet of this length transmits a payload
SendXmits(len) ==
    \/ _send = "_send_to_server"
    \/ /\ _buffer # <<>>
       /\ _should_flush(Client, len)

\* The operation named by o ran from the current state and left the client
\* as s.
Done(s, o) ==
    /\ ~s.bad
    /\ _buffer' = s._buffer
    /\ _current_buffer_total_size' = s._current_buffer_total_size
    /\ _send' = s._send
    /\ _disable_buffering' = s._disable_buffering
    /\ _flush_thread' = s._flush_thread
    /\ _flush_thread_stop' = s._flush_thread_stop
    /\ flush_threads_alive' = s.flush_threads_alive
    /\ toggle_lock_depth' = s.toggle_lock_depth
    /\ socket' = s.socket
    /\ telemetry_socket' = s.telemetry_socket
    /\ open_sockets' = s.open_sockets
    /\ metrics_count' = s.metrics_count
    /\ events_count' = s.events_count
    /\ service_checks_count' = s.service_checks_count
    /\ bytes_sent' = s.bytes_sent
    /\ bytes_dropped' = s.bytes_dropped
    /\ packets_sent' = s.packets_sent
    /\ packets_dropped' = s.packets_dropped
    /\ since_last_flush' = s.since_last_flush
    /\ handed' = s.handed
    /\ raised' = s.raised
    /\ flush_calls' = s.flush_calls
    /\ xmits' = s.xmits
    /\ op' = o
    /\ UNCHANGED <<config_vars, _telemetry, thread_vars>>

\* The threads that call the client, the flush threads in the order in
\* which _start_flush_thread creates them, and the local variables of a
\* thread before a call: is_telemetry, mysocket and sock of _xmit_packet and
\* get_socket, the packet of _report, is_disabled of the setter, the thread
\* that join() waits for, the label at which flush() returns, and the
\* telemetry packet of _send_to_server.
Threads == {"t1", "t2"}
FlushThreadName == <<"f1", "f2", "f3", "f4">>
FlushThreads == {FlushThreadName[k] : k \in 1..MaxFlushThreads}
NoPacket == [id |-> 0, len |-> 0, before_enable |-> FALSE]
NoLocals ==
    [telemetry |-> FALSE, mysocket |-> None, sock |-> None,
     packet |-> NoPacket, is_disabled |-> FALSE, thread |-> "", ret |-> "",
     telemetry_packet |-> NoPacket, kind |-> "", counter |-> 0,
     sampled_out |-> FALSE]

\* No thread is inside a method of the client; the flush thread that the
\* constructor started is in its loop.
ThreadsIdle ==
    /\ pc = [t \in Threads \cup FlushThreads |->
               IF t \in Threads THEN "idle"
               ELSE IF t = FlushThreadName[1] /\ _flush_thread = "Thread"
               THEN "loop" ELSE "unborn"]
    /\ local = [t \in Threads \cup FlushThreads |-> NoLocals]
    /\ _socket_lock = "free"
    /\ sockets_created = <<>>
    /\ _buffer_lock = [owner |-> "free", depth |-> 0]
    /\ toggle_lock_owner = "free"
    /\ flush_threads_created = IF _flush_thread = "Thread" THEN 1 ELSE 0
    /\ completed = <<>>
    /\ started = 0

Op(name, id, len, arg) == [name |-> name, id |-> id, len |-> len, arg |-> arg]

NewPacket(len) == [id |-> calls + 1, len |-> len, before_enable |-> FALSE]

\* Sample rates, in tenths: a rate of 1 and a rate of 0.5.
SampleRates == {10, 5}

\* A value of Python that may be None, given as a list: <<>> is None, <<v>>
\* is the value v.
NoneValue == <<>>
Some(v) == <<v>>
IsNone(x) == x = <<>>
ValueOf(x) == x[1]

\* The constructor's arguments namespace, constant_tags (with the tags of
\* the environment), default_sample_rate and the container id: the defaults.
PlainSerializer ==
    /\ namespace = NoneValue
    /\ constant_tags = <<>>
    /\ default_sample_rate = 10
    /\ _container_id = NoneValue

\* The state after construction, for these values of the constructor's
\* arguments flush_interval, disable_telemetry and
\* telemetry_host/telemetry_socket_path.
InitClient(flush_intervals, telemetry_values, dedicated_values) ==
    /\ _enabled = TRUE
    /\ _flush_interval \in flush_intervals
    /\ _disable_buffering \in BOOLEAN
    /\ _telemetry \in telemetry_values
    /\ dedicated_telemetry \in (IF _telemetry THEN dedicated_values ELSE {FALSE})
    /\ _buffer = <<>>
    /\ _current_buffer_total_size = 0
    /\ _send = IF _disable_buffering THEN "_send_to_server" ELSE "_send_to_buffer"
    /\ _flush_thread_stop = FALSE
    /\ _flush_thread =
         IF _disable_buffering \/ _flush_interval <= MIN_FLUSH_INTERVAL
         THEN "unset" ELSE "Thread"
    /\ flush_threads_alive = IF _flush_thread = "Thread" THEN 1 ELSE 0
    /\ toggle_lock_depth = 0
    /\ socket = None
    /\ telemetry_socket = None
    /\ open_sockets = {}
    /\ metrics_count = 0
    /\ events_count = 0
    /\ service_checks_count = 0
    /\ bytes_sent = 0
    /\ bytes_dropped = 0
    /\ packets_sent = 0
    /\ packets_dropped = 0
    /\ since_last_flush = 0
    /\ calls = 0
    /\ op = Op("__init__", 0, 0, "")
    /\ raised = "none"
    /\ flush_calls = 0
    /\ xmits = <<>>
    /\ handed = [i \in 1..(MaxBufferedCalls + MaxTransportCalls) |-> 0]
    /\ ThreadsIdle

\* The same with the defaults for what the serialization uses.
InitWith(flush_intervals, telemetry_values, dedicated_values) ==
    /\ InitClient(flush_intervals, telemetry_values, dedicated_values)
    /\ PlainSerializer

\* gauge/increment/decrement/histogram/distribution/timing/set with a value
\* of None: returns at once
ReportNone ==
    /\ \E s \in {_report(Client, NewPacket(1), "None", FALSE, Unused, Unused)} :
         Done(s, Op("report", 0, 1, "None"))
    /\ UNCHANGED calls

\* gauge/increment/decrement/histogram/distribution/timing/set; the
\* sample_rate of the call leaves it out (sampled_out) or not
Report(max, lens, sampling) ==
    /\ calls < max
    /\ \E len \in lens, sampled_out \in sampling :
         \E o1 \in O1(~sampled_out /\ SendXmits(len)),
            o2 \in O2(~sampled_out /\ SendXmits(len)) :
         \E s \in {_report(Client, NewPacket(len), "value", sampled_out, o1, o2)} :
           Done(s, Op("report", calls + 1, len,
                      IF sampled_out THEN "sampled_out" ELSE "send"))
    /\ calls' = calls + 1

\* event() of an event above the size limit: raises
EventTooBig ==
    /\ \E len \in {l \in EventLens : l > EVENT_SIZE_LIMIT} :
         \E s \in {event(Client, NewPacket(len), Unused, Unused)} :
           Done(s, Op("event", 0, len, ""))
    /\ UNCHANGED calls

\* event()
Event(max) ==
    /\ calls < max
    /\ \E len \in {l \in EventLens : l <= EVENT_SIZE_LIMIT} :
         \E o1 \in O1(SendXmits(len)), o2 \in O2(SendXmits(len)) :
         \E s \in {event(Client, NewPacket(len), o1, o2)} :
           Done(s, Op("event", calls + 1, len, ""))
    /\ calls' = calls + 1

\* event() of a title and message of these characters
EventOfText(max) ==
    /\ calls < max
    /\ \E chars \in EventTextChars, width \in Utf8Widths :
         \E len \in {EventStringLen(chars)} :
         \E o1 \in O1(len <= EVENT_SIZE_LIMIT /\ SendXmits(len)),
            o2 \in O2(len <= EVENT_SIZE_LIMIT /\ SendXmits(len)) :
         \E s \in {event(Client, NewPacket(len), o1, o2)} :
           Done(s, [name |-> "event", id |-> calls + 1, len |-> len,
                    arg |-> "", encoded |-> Utf8Len(chars, width)])
    /\ calls' = calls + 1

\* service_check()
ServiceCheck(max) ==
    /\ calls < max
    /\ \E len \in ServiceCheckLens :
         \E o1 \in O1(SendXmits(len)), o2 \in O2(SendXmits(len)) :
         \E s \in {service_check(Client, NewPacket(len), o1, o2)} :
           Done(s, Op("service_check", calls + 1, len, ""))
    /\ calls' = calls + 1

\* flush(), called by the user
Flush ==
    /\ \E o1 \in O1(_buffer # <<>>), o2 \in O2(_buffer # <<>>) :
         \E s \in {flush(Client, o1, o2)} :
           Done(s, Op("flush", 0, 0, ""))
    /\ UNCHANGED calls

\* _flush_thread_loop: the flush thread wakes up from its sleep and flushes
FlushThreadLoop ==
    /\ flush_threads_alive > 0
    /\ ~_flush_thread_stop
    /\ \E o1 \in O1(_buffer # <<>>), o2 \in O2(_buffer # <<>>) :
         \E s \in {flush(Client, o1, o2)} :
           Done(s, Op("_flush_thread_loop", 0, 0, ""))
    /\ UNCHANGED calls

\* statsd.disable_buffering = is_disabled
SetDisableBuffering ==
    /\ \E is_disabled \in BOOLEAN :
         \E o1 \in O1(is_disabled /\ _buffer # <<>>) \cup {Unused},
            o2 \in O2(is_disabled /\ _buffer # <<>>) \cup {Unused} :
         \E s \in {set_disable_buffering(Client, is_disabled, o1, o2)} :
           Done(s, Op("disable_buffering", 0, 0,
                      IF is_disabled THEN "True" ELSE "False"))
    /\ UNCHANGED calls

\* open_buffer(), or entering the with-statement
OpenBuffer ==
    /\ toggle_lock_depth < MaxDepth
    /\ \E s \in {open_buffer(Client)} :
         Done(s, Op("open_buffer", 0, 0, ""))
    /\ UNCHANGED calls

\* close_buffer(), or leaving the with-statement, after a matching
\* open_buffer(); the thread may be interrupted in the send of the flush
CloseBuffer ==
    /\ toggle_lock_depth > 0
    /\ \E o1 \in O1(_buffer # <<>>)
                  \cup {o \in Interrupts : /\ _buffer # <<>>
                                           /\ (o.conn = "cached") = (socket # None)},
          o2 \in O2(_buffer # <<>>) :
         \E s \in {close_buffer(Client, o1, o2)} :
           Done(s, Op("close_buffer", 0, 0, ""))
    /\ UNCHANGED calls

\* time.time() advances; the clock is read only when telemetry is enabled
Tick ==
    /\ _telemetry
    /\ since_last_flush <= TelemetryFlushInterval
    /\ since_last_flush' = since_last_flush + 1
    /\ op' = Op("tick", 0, 0, "")
    /\ raised' = "none"
    /\ flush_calls' = 0
    /\ xmits' = <<>>
    /\ UNCHANGED <<config_vars, buffer_vars, mode_vars, socket_vars, _telemetry,
                   counter_vars, calls, handed, thread_vars>>

\* The buffer and the buffering mode: a client without telemetry, every
\* operation on the buffer, the mode and the batch scope.
Init == InitWith(FlushIntervals, {FALSE}, {FALSE})

Next ==
    \/ ReportNone
    \/ Report(MaxBufferedCalls, MetricLens, BOOLEAN)
    \/ EventTooBig
    \/ Event(MaxBufferedCalls)
    \/ ServiceCheck(MaxBufferedCalls)
    \/ Flush
    \/ FlushThreadLoop
    \/ SetDisableBuffering
    \/ OpenBuffer
    \/ CloseBuffer

Spec == Init /\ [][Next]_vars

\* The transport and the telemetry: a client with or without telemetry, with
\* or without a dedicated telemetry destination, in direct or in buffered
\* mode, flushed by its user only (flush_interval = MIN_FLUSH_INTERVAL starts
\* no flush thread); metric calls of one length with a sample_rate of 1,
\* events, service checks, flushes and the clock.
InitTransport == InitWith({MIN_FLUSH_INTERVAL}, BOOLEAN, BOOLEAN)

NextTransport ==
    \/ ReportNone
    \/ Report(MaxTransportCalls, {1}, {FALSE})
    \/ EventTooBig
    \/ Event(MaxTransportCalls)
    \/ ServiceCheck(MaxTransportCalls)
    \/ Flush
    \/ Tick

SpecTransport == InitTransport /\ [][NextTransport]_vars

\* Events: a client with or without telemetry, in direct or in buffered mode;
\* events of ASCII and of two-byte text around the size limit, flushes and
\* the clock.
InitEvents == InitWith({MIN_FLUSH_INTERVAL}, BOOLEAN, {FALSE})

NextEvents ==
    \/ EventOfText(MaxTransportCalls)
    \/ Flush
    \/ Tick

SpecEvents == InitEvents /\ [][NextEvents]_vars

\* ------------------------------------- threads in the socket layer
\* The cached handle that _xmit_packet and get_socket use for a packet:
\* telemetry_socket for a telemetry packet with a dedicated destination,
\* socket otherwise.
DestinationOf(telemetry) ==
    IF telemetry /\ _dedicated_telemetry_destination THEN "telemetry" ELSE "main"
HandleOf(telemetry) ==
    IF DestinationOf(telemetry) = "telemetry" THEN telemetry_socket ELSE socket

\* Thread t goes to label with these locals.
Goto(t, label, locals) ==
    /\ pc' = [pc EXCEPT ![t] = label]
    /\ local' = [local EXCEPT ![t] = locals]

\* What the steps of the socket layer leave alone.
SocketStepFrame ==
    UNCHANGED <<config_vars, buffer_vars, mode_vars, telemetry_vars,
                calls, op, raised, flush_calls, xmits, handed, _buffer_lock,
                toggle_lock_owner, flush_threads_created, completed, started>>

\* entering "with self._socket_lock:" without waiting for the lock
SocketLockAcquire_without_exclusion(t) ==
    _socket_lock' = t

\* entering "with self._socket_lock:": waits until the lock is free
SocketLockAcquire(t) ==
    /\ _socket_lock = "free"
    /\ _socket_lock' = t

\* _xmit_packet: mysocket = self.socket or self.get_socket(), the left
\* operand (and the same with telemetry_socket)
XmitReadHandle(t) ==
    /\ pc[t] = "idle"
    /\ \E telemetry \in BOOLEAN :
         IF HandleOf(telemetry) # None
         THEN Goto(t, "send", [NoLocals EXCEPT !.telemetry = telemetry,
                                              !.mysocket = HandleOf(telemetry)])
         ELSE Goto(t, "get_socket", [NoLocals EXCEPT !.telemetry = telemetry])
    /\ UNCHANGED <<socket_vars, _socket_lock, sockets_created>>
    /\ SocketStepFrame

\* get_socket: with self._socket_lock
GetSocketAcquire(t) ==
    /\ pc[t] = "get_socket"
    /\ SocketLockAcquire(t)
    /\ Goto(t, "get_socket_test", local[t])
    /\ UNCHANGED <<socket_vars, sockets_created>>
    /\ SocketStepFrame

\* get_socket: if not self.socket (if not self.telemetry_socket)
GetSocketTest(t) ==
    /\ pc[t] = "get_socket_test"
    /\ IF HandleOf(local[t].telemetry) = None
       THEN Goto(t, "get_socket_create", local[t])
       ELSE Goto(t, "get_socket_return", local[t])
    /\ UNCHANGED <<socket_vars, _socket_lock, sockets_created>>
    /\ SocketStepFrame

\* get_socket: _get_udp_socket or _get_uds_socket creates and connects a
\* socket
GetSocketCreate(t) ==
    /\ pc[t] = "get_socket_create"
    /\ Len(sockets_created) < MaxSockets
    /\ sockets_created' =
         Append(sockets_created, DestinationOf(local[t].telemetry))
    /\ open_sockets' = open_sockets \cup {Len(sockets_created) + 1}
    /\ Goto(t, "get_socket_assign",
            [local[t] EXCEPT !.sock = Len(sockets_created) + 1])
    /\ UNCHANGED <<socket, telemetry_socket, _socket_lock>>
    /\ SocketStepFrame

\* get_socket: the creation raises (resolution, connect); the socket that
\* did not connect is released with the exception, the lock is released and
\* the except clause of _xmit_packet calls close_socket
GetSocketCreateFails(t) ==
    /\ pc[t] = "get_socket_create"
    /\ _socket_lock' = "free"
    /\ Goto(t, "close_socket", NoLocals)
    /\ UNCHANGED <<socket_vars, sockets_created>>
    /\ SocketStepFrame

\* get_socket: self.socket = (self.telemetry_socket =) the socket created
GetSocketAssign(t) ==
    /\ pc[t] = "get_socket_assign"
    /\ IF DestinationOf(local[t].telemetry) = "telemetry"
       THEN telemetry_socket' = local[t].sock /\ UNCHANGED socket
       ELSE socket' = local[t].sock /\ UNCHANGED telemetry_socket
    /\ Goto(t, "get_socket_return", local[t])
    /\ UNCHANGED <<open_sockets, _socket_lock, sockets_created>>
    /\ SocketStepFrame

\* get_socket: return self.socket (return self.telemetry_socket), which
\* leaves the with-statement
GetSocketReturn(t) ==
    /\ pc[t] = "get_socket_return"
    /\ _socket_lock' = "free"
    /\ Goto(t, "send", [NoLocals EXCEPT
                          !.telemetry = local[t].telemetry,
                          !.mysocket = HandleOf(local[t].telemetry)])
    /\ UNCHANGED <<socket_vars, sockets_created>>
    /\ SocketStepFrame

\* _xmit_packet: mysocket.send(...) succeeds, or fails with an error after
\* which the socket is kept
XmitSendReturns(t) ==
    /\ pc[t] = "send"
    /\ local[t].mysocket \in open_sockets
    /\ Goto(t, "idle", NoLocals)
    /\ UNCHANGED <<socket_vars, _socket_lock, sockets_created>>
    /\ SocketStepFrame

\* _xmit_packet: mysocket.send(...) fails with an error after which
\* close_socket is called; the send on a socket that was closed meanwhile
\* fails so (EBADF)
XmitSendFailsFatally(t) ==
    /\ pc[t] = "send"
    /\ Goto(t, "close_socket", NoLocals)
    /\ UNCHANGED <<socket_vars, _socket_lock, sockets_created>>
    /\ SocketStepFrame

\* close_socket(), called by the user
CloseSocketCall(t) ==
    /\ pc[t] = "idle"
    /\ Goto(t, "close_socket", NoLocals)
    /\ UNCHANGED <<socket_vars, _socket_lock, sockets_created>>
    /\ SocketStepFrame

\* close_socket: with self._socket_lock
CloseSocketAcquire(t) ==
    /\ pc[t] = "close_socket"
    /\ SocketLockAcquire(t)
    /\ Goto(t, "close_main", local[t])
    /\ UNCHANGED <<socket_vars, sockets_created>>
    /\ SocketStepFrame

\* close_socket: if self.socket: self.socket.close()
CloseMain(t) ==
    /\ pc[t] = "close_main"
    /\ IF socket # None
       THEN /\ open_sockets' = open_sockets \ {socket}
            /\ Goto(t, "forget_main", local[t])
       ELSE /\ UNCHANGED open_sockets
            /\ Goto(t, "close_telemetry", local[t])
    /\ UNCHANGED <<socket, telemetry_socket, _socket_lock, sockets_created>>
    /\ SocketStepFrame

\* close_socket: self.socket = None
ForgetMain(t) ==
    /\ pc[t] = "forget_main"
    /\ socket' = None
    /\ Goto(t, "close_telemetry", local[t])
    /\ UNCHANGED <<telemetry_socket, open_sockets, _socket_lock, sockets_created>>
    /\ SocketStepFrame

\* close_socket: if self.telemetry_socket: self.telemetry_socket.close()
CloseTelemetry(t) ==
    /\ pc[t] = "close_telemetry"
    /\ IF telemetry_socket # None
       THEN /\ open_sockets' = open_sockets \ {telemetry_socket}
            /\ Goto(t, "forget_telemetry", local[t])
       ELSE /\ UNCHANGED open_sockets
            /\ Goto(t, "close_socket_return", local[t])
    /\ UNCHANGED <<socket, telemetry_socket, _socket_lock, sockets_created>>
    /\ SocketStepFrame

\* close_socket: self.telemetry_socket = None
ForgetTelemetry(t) ==
    /\ pc[t] = "forget_telemetry"
    /\ telemetry_socket' = None
    /\ Goto(t, "close_socket_return", local[t])
    /\ UNCHANGED <<socket, open_sockets, _socket_lock, sockets_created>>
    /\ SocketStepFrame

\* close_socket: the end of the with-statement
CloseSocketReturn(t) ==
    /\ pc[t] = "close_socket_return"
    /\ _socket_lock' = "free"
    /\ Goto(t, "idle", NoLocals)
    /\ UNCHANGED <<socket_vars, sockets_created>>
    /\ SocketStepFrame

\* Threads in the socket layer: senders in direct mode (or flushers, the
\* flush thread among them) inside _xmit_packet and callers of close_socket,
\* interleaved statement by statement, with or without a dedicated telemetry
\* destination.
InitSockets == InitWith({MIN_FLUSH_INTERVAL}, {TRUE}, BOOLEAN)

NextSockets ==
    \E t \in Threads :
         \/ XmitReadHandle(t)
         \/ GetSocketAcquire(t)
         \/ GetSocketTest(t)
         \/ GetSocketCreate(t)
         \/ GetSocketCreateFails(t)
         \/ GetSocketAssign(t)
         \/ GetSocketReturn(t)
         \/ XmitSendReturns(t)
         \/ XmitSendFailsFatally(t)
         \/ CloseSocketCall(t)
         \/ CloseSocketAcquire(t)
         \/ CloseMain(t)
         \/ ForgetMain(t)
         \/ CloseTelemetry(t)
         \/ ForgetTelemetry(t)
         \/ CloseSocketReturn(t)

SpecSockets == InitSockets /\ [][NextSockets]_vars

\* ------------------------------- threads in the buffer and the mode toggle
\* The flush thread of handle _flush_thread: the Thread object created last.
TheFlushThread == FlushThreadName[flush_threads_created]

\* What the steps of the threads in the buffer and the mode toggle leave
\* alone.
ThreadStepFrame ==
    UNCHANGED <<config_vars, socket_vars, telemetry_vars, op, flush_calls,
                _socket_lock, sockets_created>>

\* entering "with self._buffer_lock:" without waiting for the lock
BufferLockAcquire_without_exclusion(t) ==
    _buffer_lock' = [owner |-> t, depth |-> _buffer_lock.depth + 1]

\* entering "with self._buffer_lock:" (an RLock): waits until the lock is
\* free or held by the thread itself
BufferLockAcquire(t) ==
    /\ _buffer_lock.owner \in {"free", t}
    /\ _buffer_lock' = [owner |-> t, depth |-> _buffer_lock.depth + 1]

\* leaving "with self._buffer_lock:"
BufferLockRelease(t) ==
    _buffer_lock' = IF _buffer_lock.depth <= 1
                    THEN [owner |-> "free", depth |-> 0]
                    ELSE [_buffer_lock EXCEPT !.depth = @ - 1]

\* acquiring self._buffering_toggle_lock without waiting for the lock
ToggleLockAcquire_without_exclusion(t) ==
    /\ toggle_lock_owner' = t
    /\ toggle_lock_depth' = toggle_lock_depth + 1

\* acquiring self._buffering_toggle_lock (an RLock): waits until the lock is
\* free or held by the thread itself
ToggleLockAcquire(t) ==
    /\ toggle_lock_owner \in {"free", t}
    /\ toggle_lock_owner' = t
    /\ toggle_lock_depth' = toggle_lock_depth + 1

\* releasing self._buffering_toggle_lock
ToggleLockRelease(t) ==
    /\ toggle_lock_depth' = IF toggle_lock_depth <= 1 THEN 0
                            ELSE toggle_lock_depth - 1
    /\ toggle_lock_owner' = IF toggle_lock_depth <= 1 THEN "free"
                            ELSE toggle_lock_owner

\* The transport is handed a payload (_send_to_server; the socket layer is
\* left out here).
HandOver(payload) ==
    /\ xmits' = Append(xmits, [telemetry |-> FALSE, ids |-> payload.ids,
                               len |-> payload.len])
    /\ handed' = [i \in DOMAIN handed |->
                    IF \E k \in 1..Len(payload.ids) : payload.ids[k] = i
                    THEN handed[i] + 1 ELSE handed[i]]

\* Thread t is in none of the client's methods.
Idle(t) == pc[t] = "idle"

\* Thread t starts a call of a public method.
StartCall(t) ==
    /\ Idle(t)
    /\ started < MaxThreadOps
    /\ started' = started + 1

\* --- flush(), as called from label "flush" with the label to return to in
\* local.ret
\* flush: with self._buffer_lock
FlushAcquire(t) ==
    /\ pc[t] = "flush"
    /\ BufferLockAcquire(t)
    /\ Goto(t, "flush_send", local[t])
    /\ UNCHANGED <<buffer_vars, flag_vars, sched_vars, toggle_vars, log_vars>>
    /\ ThreadStepFrame

\* flush: if self._buffer: self._send_to_server("\n".join(self._buffer))
FlushSend(t) ==
    /\ pc[t] = "flush_send"
    /\ IF _buffer # <<>>
       THEN /\ HandOver(Join(_buffer))
            /\ Goto(t, "flush_reset", local[t])
       ELSE /\ UNCHANGED <<xmits, handed>>
            /\ Goto(t, "flush_release", local[t])
    /\ UNCHANGED <<buffer_vars, flag_vars, sched_vars, toggle_vars, _buffer_lock,
                   calls, completed, started, raised>>
    /\ ThreadStepFrame

\* flush: self._reset_buffer(), whose with self._buffer_lock re-enters the
\* lock
FlushReset(t) ==
    /\ pc[t] = "flush_reset"
    /\ _buffer' = <<>>
    /\ _current_buffer_total_size' = 0
    /\ Goto(t, "flush_release", local[t])
    /\ UNCHANGED <<flag_vars, sched_vars, toggle_vars, _buffer_lock, log_vars>>
    /\ ThreadStepFrame

\* flush: the end of the with-statement, and the return
FlushRelease(t) ==
    /\ pc[t] = "flush_release"
    /\ BufferLockRelease(t)
    /\ Goto(t, local[t].ret, [local[t] EXCEPT !.ret = ""])
    /\ UNCHANGED <<buffer_vars, flag_vars, sched_vars, toggle_vars, log_vars>>
    /\ ThreadStepFrame

\* flush(), called by the user
FlushCall(t) ==
    /\ StartCall(t)
    /\ Goto(t, "flush", [NoLocals EXCEPT !.ret = "idle"])
    /\ UNCHANGED <<buffer_vars, flag_vars, sched_vars, toggle_vars, _buffer_lock,
                   xmits, handed, calls, completed, raised>>
    /\ ThreadStepFrame

\* --- _report
\* _report: self._send(payload), the method that self._send names is read
ReportSelect(t) ==
    /\ StartCall(t)
    /\ calls < MaxBufferedCalls
    /\ calls' = calls + 1
    /\ \E len \in MetricLens :
         Goto(t, _send, [NoLocals EXCEPT !.packet = NewPacket(len)])
    /\ UNCHANGED <<buffer_vars, flag_vars, sched_vars, toggle_vars, _buffer_lock,
                   xmits, handed, completed, raised>>
    /\ ThreadStepFrame

\* _send_to_server(packet)
SendToServer(t) ==
    /\ pc[t] = "_send_to_server"
    /\ HandOver([ids |-> <<local[t].packet.id>>, len |-> local[t].packet.len])
    /\ Goto(t, "idle", NoLocals)
    /\ UNCHANGED <<buffer_vars, flag_vars, sched_vars, toggle_vars, _buffer_lock,
                   calls, completed, started, raised>>
    /\ ThreadStepFrame

\* _send_to_buffer: with self._buffer_lock
SendToBufferAcquire(t) ==
    /\ pc[t] = "_send_to_buffer"
    /\ BufferLockAcquire(t)
    /\ Goto(t, "should_flush", local[t])
    /\ UNCHANGED <<buffer_vars, flag_vars, sched_vars, toggle_vars, log_vars>>
    /\ ThreadStepFrame

\* _send_to_buffer: if self._should_flush(len(packet)): self.flush()
SendToBufferShouldFlush(t) ==
    /\ pc[t] = "should_flush"
    /\ IF _current_buffer_total_size + local[t].packet.len + 1 > MaxPayloadSize
       THEN Goto(t, "flush", [local[t] EXCEPT !.ret = "append"])
       ELSE Goto(t, "append", local[t])
    /\ UNCHANGED <<buffer_vars, flag_vars, sched_vars, toggle_vars, _buffer_lock,
                   log_vars>>
    /\ ThreadStepFrame

\* _send_to_buffer: self._buffer.append(packet)
SendToBufferAppend(t) ==
    /\ pc[t] = "append"
    /\ _buffer' = Append(_buffer, local[t].packet)
    /\ Goto(t, "add_size", local[t])
    /\ UNCHANGED <<_current_buffer_total_size, flag_vars, sched_vars, toggle_vars,
                   _buffer_lock, log_vars>>
    /\ ThreadStepFrame

\* a size that counts the packet without the newline that joins it
SendToBufferAddSize_without_separator(t) ==
    /\ pc[t] = "add_size"
    /\ _current_buffer_total_size' =
         _current_buffer_total_size + local[t].packet.len
    /\ Goto(t, "buffer_release", local[t])
    /\ UNCHANGED <<_buffer, flag_vars, sched_vars, toggle_vars, _buffer_lock,
                   log_vars>>
    /\ ThreadStepFrame

\* _send_to_buffer: self._current_buffer_total_size += len(packet) + 1
SendToBufferAddSize(t) ==
    /\ pc[t] = "add_size"
    /\ _current_buffer_total_size' =
         _current_buffer_total_size + local[t].packet.len + 1
    /\ Goto(t, "buffer_release", local[t])
    /\ UNCHANGED <<_buffer, flag_vars, sched_vars, toggle_vars, _buffer_lock,
                   log_vars>>
    /\ ThreadStepFrame

\* _send_to_buffer: the end of the with-statement; the call has completed
SendToBufferRelease(t) ==
    /\ pc[t] = "buffer_release"
    /\ BufferLockRelease(t)
    /\ completed' = Append(completed, local[t].packet.id)
    /\ Goto(t, "idle", NoLocals)
    /\ UNCHANGED <<buffer_vars, flag_vars, sched_vars, toggle_vars,
                   xmits, handed, calls, started, raised>>
    /\ ThreadStepFrame

\* --- the setter of disable_buffering
\* statsd.disable_buffering = is_disabled; a call that may start a flush
\* thread is made while threads are left to create
SetterCall(t) ==
    /\ StartCall(t)
    /\ \E is_disabled \in BOOLEAN :
         /\ is_disabled \/ flush_threads_created < MaxFlushThreads
         /\ Goto(t, "setter", [NoLocals EXCEPT !.is_disabled = is_disabled])
    /\ UNCHANGED <<buffer_vars, flag_vars, sched_vars, toggle_vars, _buffer_lock,
                   xmits, handed, calls, completed, raised>>
    /\ ThreadStepFrame

\* setter: with self._buffering_toggle_lock
SetterAcquire(t) ==
    /\ pc[t] = "setter"
    /\ ToggleLockAcquire(t)
    /\ Goto(t, "setter_test", local[t])
    /\ UNCHANGED <<buffer_vars, flag_vars, sched_vars, _buffer_lock, log_vars>>
    /\ ThreadStepFrame

\* setter: if self._disable_buffering == is_disabled: return
SetterTest(t) ==
    /\ pc[t] = "setter_test"
    /\ IF _disable_buffering = local[t].is_disabled
       THEN Goto(t, "setter_release", local[t])
       ELSE Goto(t, "setter_flag", local[t])
    /\ UNCHANGED <<buffer_vars, flag_vars, sched_vars, toggle_vars, _buffer_lock,
                   log_vars>>
    /\ ThreadStepFrame

\* setter: self._disable_buffering = is_disabled
SetterFlag(t) ==
    /\ pc[t] = "setter_flag"
    /\ _disable_buffering' = local[t].is_disabled
    /\ Goto(t, "setter_send", local[t])
    /\ UNCHANGED <<buffer_vars, _send, sched_vars, toggle_vars, _buffer_lock,
                   log_vars>>
    /\ ThreadStepFrame

\* setter: self._send = self._send_to_server, or self._send_to_buffer, and
\* the call of _stop_flush_thread or _start_flush_thread
SetterSend(t) ==
    /\ pc[t] = "setter_send"
    /\ _send' = IF local[t].is_disabled
                THEN "_send_to_server" ELSE "_send_to_buffer"
    /\ Goto(t, IF local[t].is_disabled THEN "stop" ELSE "start", local[t])
    /\ UNCHANGED <<buffer_vars, _disable_buffering, sched_vars, toggle_vars,
                   _buffer_lock, log_vars>>
    /\ ThreadStepFrame

\* setter: the end of the with-statement, reached by a return or by an
\* exception
SetterRelease(t) ==
    /\ pc[t] = "setter_release"
    /\ ToggleLockRelease(t)
    /\ Goto(t, "idle", NoLocals)
    /\ UNCHANGED <<buffer_vars, flag_vars, sched_vars, _buffer_lock, log_vars>>
    /\ ThreadStepFrame

\* --- _stop_flush_thread
\* _stop_flush_thread: if not self._flush_thread: return; self.flush()
\* (reading an attribute that was never assigned raises AttributeError)
StopTest(t) ==
    /\ pc[t] = "stop"
    /\ CASE _flush_thread = "unset" ->
              /\ raised' = "AttributeError"
              /\ Goto(t, "setter_release", local[t])
         [] _flush_thread = "None" ->
              /\ UNCHANGED raised
              /\ Goto(t, "setter_release", local[t])
         [] OTHER ->
              /\ UNCHANGED raised
              /\ Goto(t, "flush", [local[t] EXCEPT !.ret = "stop_set"])
    /\ UNCHANGED <<buffer_vars, flag_vars, sched_vars, toggle_vars, _buffer_lock,
                   xmits, handed, calls, completed, started>>
    /\ ThreadStepFrame

\* _stop_flush_thread: self._flush_thread_stop.set()
StopSet(t) ==
    /\ pc[t] = "stop_set"
    /\ _flush_thread_stop' = TRUE
    /\ Goto(t, "stop_join", local[t])
    /\ UNCHANGED <<buffer_vars, flag_vars, _flush_thread, flush_threads_alive,
                   flush_threads_created, toggle_vars, _buffer_lock, log_vars>>
    /\ ThreadStepFrame

\* _stop_flush_thread: self._flush_thread.join(), the call (on None it raises
\* AttributeError)
StopJoin(t) ==
    /\ pc[t] = "stop_join"
    /\ IF _flush_thread = "Thread"
       THEN /\ UNCHANGED raised
            /\ Goto(t, "stop_joining", [local[t] EXCEPT !.thread = TheFlushThread])
       ELSE /\ raised' = "AttributeError"
            /\ Goto(t, "setter_release", local[t])
    /\ UNCHANGED <<buffer_vars, flag_vars, sched_vars, toggle_vars, _buffer_lock,
                   xmits, handed, calls, completed, started>>
    /\ ThreadStepFrame

\* a join() that returns without waiting for the end of the thread
StopJoined_without_waiting(t) ==
    /\ pc[t] = "stop_joining"
    /\ Goto(t, "stop_forget", local[t])
    /\ UNCHANGED <<buffer_vars, flag_vars, sched_vars, toggle_vars, _buffer_lock,
                   log_vars>>
    /\ ThreadStepFrame

\* _stop_flush_thread: join() returns once the thread has ended
StopJoined(t) ==
    /\ pc[t] = "stop_joining"
    /\ pc[local[t].thread] = "dead"
    /\ Goto(t, "stop_forget", local[t])
    /\ UNCHANGED <<buffer_vars, flag_vars, sched_vars, toggle_vars, _buffer_lock,
                   log_vars>>
    /\ ThreadStepFrame

\* _stop_flush_thread: self._flush_thread = None
StopForget(t) ==
    /\ pc[t] = "stop_forget"
    /\ _flush_thread' = "None"
    /\ Goto(t, "stop_clear", local[t])
    /\ UNCHANGED <<buffer_vars, flag_vars, _flush_thread_stop, flush_threads_alive,
                   flush_threads_created, toggle_vars, _buffer_lock, log_vars>>
    /\ ThreadStepFrame

\* _stop_flush_thread: self._flush_thread_stop.clear()
StopClear(t) ==
    /\ pc[t] = "stop_clear"
    /\ _flush_thread_stop' = FALSE
    /\ Goto(t, "setter_release", local[t])
    /\ UNCHANGED <<buffer_vars, flag_vars, _flush_thread, flush_threads_alive,
                   flush_threads_created, toggle_vars, _buffer_lock, log_vars>>
    /\ ThreadStepFrame

\* --- _start_flush_thread
\* _start_flush_thread: if self._disable_buffering or
\* self._flush_interval <= MIN_FLUSH_INTERVAL: return
StartTest(t) ==
    /\ pc[t] = "start"
    /\ IF _disable_buffering \/ _flush_interval <= MIN_FLUSH_INTERVAL
       THEN Goto(t, "setter_release", local[t])
       ELSE Goto(t, "start_create", local[t])
    /\ UNCHANGED <<buffer_vars, flag_vars, sched_vars, toggle_vars, _buffer_lock,
                   log_vars>>
    /\ ThreadStepFrame

\* _start_flush_thread: self._flush_thread = threading.Thread(...)
StartCreate(t) ==
    /\ pc[t] = "start_create"
    /\ flush_threads_created < MaxFlushThreads
    /\ flush_threads_created' = flush_threads_created + 1
    /\ _flush_thread' = "Thread"
    /\ pc' = [pc EXCEPT ![t] = "start_start",
                        ![FlushThreadName[flush_threads_created + 1]] = "created"]
    /\ UNCHANGED <<local, buffer_vars, flag_vars, _flush_thread_stop,
                   flush_threads_alive, toggle_vars, _buffer_lock, log_vars>>
    /\ ThreadStepFrame

\* _start_flush_thread: self._flush_thread.start() (a second start of one
\* thread raises RuntimeError)
StartStart(t) ==
    /\ pc[t] = "start_start"
    /\ IF _flush_thread = "Thread" /\ pc[TheFlushThread] = "created"
       THEN /\ pc' = [pc EXCEPT ![t] = "setter_release",
                                ![TheFlushThread] = "loop"]
            /\ flush_threads_alive' = flush_threads_alive + 1
            /\ UNCHANGED raised
       ELSE /\ pc' = [pc EXCEPT ![t] = "setter_release"]
            /\ raised' = IF _flush_thread = "Thread"
                         THEN "RuntimeError" ELSE "AttributeError"
            /\ UNCHANGED flush_threads_alive
    /\ UNCHANGED <<local, buffer_vars, flag_vars, _flush_thread, _flush_thread_stop,
                   flush_threads_created, toggle_vars, _buffer_lock,
                   xmits, handed, calls, completed, started>>
    /\ ThreadStepFrame

\* --- _flush_thread_loop, run by flush thread f
\* while not self._flush_thread_stop.is_set(): the loop goes on, or the
\* thread ends
LoopTest(f) ==
    /\ pc[f] = "loop"
    /\ IF _flush_thread_stop
       THEN /\ Goto(f, "dead", local[f])
            /\ flush_threads_alive' = flush_threads_alive - 1
       ELSE /\ Goto(f, "sleep", local[f])
            /\ UNCHANGED flush_threads_alive
    /\ UNCHANGED <<buffer_vars, flag_vars, _flush_thread, _flush_thread_stop,
                   flush_threads_created, toggle_vars, _buffer_lock, log_vars>>
    /\ ThreadStepFrame

\* a loop that flushes only while no toggle is in progress and no batch scope
\* is open
LoopWake_when_toggle_lock_free(f) ==
    /\ pc[f] = "sleep"
    /\ toggle_lock_owner = "free"
    /\ Goto(f, "flush", [local[f] EXCEPT !.ret = "loop"])
    /\ UNCHANGED <<buffer_vars, flag_vars, sched_vars, toggle_vars, _buffer_lock,
                   log_vars>>
    /\ ThreadStepFrame

\* time.sleep(flush_interval) returns; self.flush()
LoopWake(f) ==
    /\ pc[f] = "sleep"
    /\ Goto(f, "flush", [local[f] EXCEPT !.ret = "loop"])
    /\ UNCHANGED <<buffer_vars, flag_vars, sched_vars, toggle_vars, _buffer_lock,
                   log_vars>>
    /\ ThreadStepFrame

\* --- open_buffer and close_buffer
\* open_buffer(), or entering the with-statement
OpenBufferCall(t) ==
    /\ StartCall(t)
    /\ toggle_lock_owner = t => toggle_lock_depth < MaxScopeDepth
    /\ Goto(t, "open_buffer", NoLocals)
    /\ UNCHANGED <<buffer_vars, flag_vars, sched_vars, toggle_vars, _buffer_lock,
                   xmits, handed, calls, completed, raised>>
    /\ ThreadStepFrame

\* open_buffer: self._buffering_toggle_lock.acquire()
OpenBufferAcquire(t) ==
    /\ pc[t] = "open_buffer"
    /\ ToggleLockAcquire(t)
    /\ Goto(t, "open_send", local[t])
    /\ UNCHANGED <<buffer_vars, flag_vars, sched_vars, _buffer_lock, log_vars>>
    /\ ThreadStepFrame

\* open_buffer: self._send = self._send_to_buffer
OpenBufferSend(t) ==
    /\ pc[t] = "open_send"
    /\ _send' = "_send_to_buffer"
    /\ Goto(t, "open_reset", local[t])
    /\ UNCHANGED <<buffer_vars, _disable_buffering, sched_vars, toggle_vars,
                   _buffer_lock, log_vars>>
    /\ ThreadStepFrame

\* open_buffer: self._reset_buffer(), under the buffer lock, and the return
OpenBufferReset(t) ==
    /\ pc[t] = "open_reset"
    /\ _buffer_lock.owner \in {"free", t}
    /\ _buffer' = <<>>
    /\ _current_buffer_total_size' = 0
    /\ Goto(t, "idle", NoLocals)
    /\ UNCHANGED <<flag_vars, sched_vars, toggle_vars, _buffer_lock, log_vars>>
    /\ ThreadStepFrame

\* close_buffer(), or leaving the with-statement, by the thread that opened
\* the buffer: self.flush()
CloseBufferCall(t) ==
    /\ Idle(t)
    /\ toggle_lock_owner = t
    /\ Goto(t, "flush", [NoLocals EXCEPT !.ret = "close_restore"])
    /\ UNCHANGED <<buffer_vars, flag_vars, sched_vars, toggle_vars, _buffer_lock,
                   log_vars>>
    /\ ThreadStepFrame

\* a close_buffer that leaves _send as open_buffer set it
CloseBufferRestore_keeping_buffered_path(t) ==
    /\ pc[t] = "close_restore"
    /\ Goto(t, "close_release", local[t])
    /\ UNCHANGED <<buffer_vars, flag_vars, sched_vars, toggle_vars,
                   _buffer_lock, log_vars>>
    /\ ThreadStepFrame

\* close_buffer: if self._disable_buffering: self._send = self._send_to_server
CloseBufferRestore(t) ==
    /\ pc[t] = "close_restore"
    /\ _send' = IF _disable_buffering THEN "_send_to_server" ELSE _send
    /\ Goto(t, "close_release", local[t])
    /\ UNCHANGED <<buffer_vars, _disable_buffering, sched_vars, toggle_vars,
                   _buffer_lock, log_vars>>
    /\ ThreadStepFrame

\* close_buffer: self._buffering_toggle_lock.release()
CloseBufferRelease(t) ==
    /\ pc[t] = "close_release"
    /\ ToggleLockRelease(t)
    /\ Goto(t, "idle", NoLocals)
    /\ UNCHANGED <<buffer_vars, flag_vars, sched_vars, _buffer_lock, log_vars>>
    /\ ThreadStepFrame

\* A step of a thread that calls the client.
ClientStep(t) ==
    \/ FlushCall(t)
    \/ ReportSelect(t)
    \/ SendToServer(t)
    \/ SendToBufferAcquire(t)
    \/ SendToBufferShouldFlush(t)
    \/ SendToBufferAppend(t)
    \/ SendToBufferAddSize(t)
    \/ SendToBufferRelease(t)
    \/ SetterCall(t)
    \/ SetterAcquire(t)
    \/ SetterTest(t)
    \/ SetterFlag(t)
    \/ SetterSend(t)
    \/ SetterRelease(t)
    \/ StopTest(t)
    \/ StopSet(t)
    \/ StopJoin(t)
    \/ StopJoined(t)
    \/ StopForget(t)
    \/ StopClear(t)
    \/ StartTest(t)
    \/ StartCreate(t)
    \/ StartStart(t)
    \/ OpenBufferCall(t)
    \/ OpenBufferAcquire(t)
    \/ OpenBufferSend(t)
    \/ OpenBufferReset(t)
    \/ CloseBufferCall(t)
    \/ CloseBufferRestore(t)
    \/ CloseBufferRelease(t)

\* A step of a flush thread.
FlushThreadStep(f) ==
    \/ LoopTest(f)
    \/ LoopWake(f)

\* A step of flush(), by a thread that calls the client or by a flush thread.
FlushStep(t) ==
    \/ FlushAcquire(t)
    \/ FlushSend(t)
    \/ FlushReset(t)
    \/ FlushRelease(t)

\* Threads in the buffer and the mode toggle: a client without telemetry;
\* threads that report metrics, flush, assign disable_buffering and open and
\* close the batch scope, and the flush threads, interleaved statement by
\* statement.
InitThreads == InitWith(FlushIntervals, {FALSE}, {FALSE})

NextThreads ==
    \/ \E t \in Threads : ClientStep(t)
    \/ \E f \in FlushThreads : FlushThreadStep(f)
    \/ \E t \in Threads \cup FlushThreads : FlushStep(t)

SpecThreads == InitThreads /\ [][NextThreads]_vars

\* The same threads under a fair scheduler: a thread that is inside a method
\* of the client, or a flush thread in its loop, takes its next step; one
\* that waits for a lock gets it if the lock is free again and again (the
\* flush thread sleeps flush_interval between two flushes, the callers hold
\* a lock for the time of one call).
Running(t) ==
    /\ ~Idle(t)
    /\ \/ ClientStep(t)
       \/ FlushThreadStep(t)
       \/ FlushStep(t)

SpecThreadsFair ==
    /\ InitThreads
    /\ [][NextThreads]_vars
    /\ \A t \in Threads \cup FlushThreads : SF_vars(Running(t))

\* ------------------------------------------------ threads in the telemetry
\* What the steps of the threads in the telemetry leave alone.
TelemetryStepFrame ==
    UNCHANGED <<config_vars, buffer_vars, mode_vars, socket_vars, _telemetry,
                op, raised, flush_calls, handed, _socket_lock, sockets_created,
                _buffer_lock, toggle_lock_owner, flush_threads_created,
                started>>

\* The counters and the time of the last telemetry flush become those of s.
SetTelemetry(s) ==
    /\ metrics_count' = s.metrics_count
    /\ events_count' = s.events_count
    /\ service_checks_count' = s.service_checks_count
    /\ bytes_sent' = s.bytes_sent
    /\ bytes_dropped' = s.bytes_dropped
    /\ packets_sent' = s.packets_sent
    /\ packets_dropped' = s.packets_dropped
    /\ since_last_flush' = s.since_last_flush

\* The calls that count themselves in the telemetry, and the counter of each.
CallKinds == {"metric", "event", "service_check"}
CounterOf(kind) ==
    CASE kind = "metric" -> metrics_count
      [] kind = "event" -> events_count
      [] kind = "service_check" -> service_checks_count

\* The call of thread t returns: it is logged as completed.
TelemetryCallReturns(t) ==
    completed' = Append(completed, [id |-> local[t].packet.id,
                                    kind |-> local[t].kind])

\* _report, event or service_check in direct mode, up to the first half of
\* self.metrics_count += 1 (self.events_count, self.service_checks_count):
\* the value of the counter is read; the statement takes no lock, and a
\* thread may run between the read and the assignment
TelemetryReport(t) ==
    /\ Idle(t)
    /\ calls < MaxTransportCalls
    /\ calls' = calls + 1
    /\ \E kind \in CallKinds :
         \E sampled_out \in IF kind = "metric" THEN BOOLEAN ELSE {FALSE} :
           Goto(t, "count", [NoLocals EXCEPT !.packet = NewPacket(1),
                                             !.kind = kind,
                                             !.counter = CounterOf(kind),
                                             !.sampled_out = sampled_out])
    /\ UNCHANGED <<counter_vars, since_last_flush, xmits, completed>>
    /\ TelemetryStepFrame

\* the second half of the increment: the value read, plus 1, is assigned to
\* the counter; then _report returns if the call is sampled out, or the
\* packet is serialized and self._send, which is _send_to_server, is called
TelemetryCount(t) ==
    /\ pc[t] = "count"
    /\ SetTelemetry(
         CASE local[t].kind = "metric" ->
                [Client EXCEPT !.metrics_count = local[t].counter + 1]
           [] local[t].kind = "event" ->
                [Client EXCEPT !.events_count = local[t].counter + 1]
           [] local[t].kind = "service_check" ->
                [Client EXCEPT !.service_checks_count = local[t].counter + 1])
    /\ IF local[t].sampled_out
       THEN /\ Goto(t, "idle", NoLocals)
            /\ TelemetryCallReturns(t)
       ELSE /\ Goto(t, "xmit_main", local[t])
            /\ UNCHANGED completed
    /\ UNCHANGED <<calls, xmits>>
    /\ TelemetryStepFrame

\* _send_to_server: self._xmit_packet(packet + '\n', False), which sends the
\* packet and counts it as sent, or drops it and counts it as dropped
TelemetryXmitMain(t) ==
    /\ pc[t] = "xmit_main"
    /\ \E sent \in BOOLEAN :
         LET packet == WithNewline([ids |-> <<local[t].packet.id>>,
                                    len |-> local[t].packet.len])
         IN  /\ SetTelemetry(IF sent THEN CountSent(Client, packet)
                             ELSE CountDropped(Client, packet))
             /\ xmits' = Append(xmits,
                  [telemetry |-> FALSE, ids |-> packet.ids, len |-> packet.len,
                   err |-> IF sent THEN "none" ELSE "EAGAIN",
                   counters |-> Counters(Client)])
    /\ Goto(t, "flush_time", local[t])
    /\ UNCHANGED <<calls, completed>>
    /\ TelemetryStepFrame

\* _send_to_server: if self._is_telemetry_flush_time()
TelemetryTest(t) ==
    /\ pc[t] = "flush_time"
    /\ IF _is_telemetry_flush_time(Client)
       THEN /\ Goto(t, "flush_telemetry", local[t])
            /\ UNCHANGED completed
       ELSE /\ Goto(t, "idle", NoLocals)
            /\ TelemetryCallReturns(t)
    /\ UNCHANGED <<counter_vars, since_last_flush, calls, xmits>>
    /\ TelemetryStepFrame

\* _send_to_server: telemetry = self._flush_telemetry()
TelemetryBuild(t) ==
    /\ pc[t] = "flush_telemetry"
    /\ Goto(t, "xmit_telemetry",
            [local[t] EXCEPT !.telemetry_packet = _flush_telemetry(Client)])
    /\ UNCHANGED <<counter_vars, since_last_flush, calls, xmits, completed>>
    /\ TelemetryStepFrame

\* _send_to_server: if self._xmit_packet(telemetry, True), which counts
\* nothing for a telemetry packet
TelemetryXmit(t) ==
    /\ pc[t] = "xmit_telemetry"
    /\ \E sent \in BOOLEAN :
         /\ xmits' = Append(xmits,
              [telemetry |-> TRUE, ids |-> <<>>,
               len |-> local[t].telemetry_packet.len,
               err |-> IF sent THEN "none" ELSE "EAGAIN",
               counters |-> local[t].telemetry_packet.counters])
         /\ Goto(t, IF sent THEN "telemetry_sent" ELSE "telemetry_dropped",
                 local[t])
    /\ UNCHANGED <<counter_vars, since_last_flush, calls, completed>>
    /\ TelemetryStepFrame

\* _send_to_server: self._reset_telemetry(); self.packets_sent += 1;
\* self.bytes_sent += len(telemetry)
TelemetryWasSent(t) ==
    /\ pc[t] = "telemetry_sent"
    /\ SetTelemetry(TelemetrySent(Client, local[t].telemetry_packet))
    /\ Goto(t, "idle", NoLocals)
    /\ TelemetryCallReturns(t)
    /\ UNCHANGED <<calls, xmits>>
    /\ TelemetryStepFrame

\* _send_to_server: self._last_flush_time = time.time();
\* self.bytes_dropped += len(telemetry); self.packets_dropped += 1
TelemetryWasDropped(t) ==
    /\ pc[t] = "telemetry_dropped"
    /\ SetTelemetry(TelemetryDropped(Client, local[t].telemetry_packet))
    /\ Goto(t, "idle", NoLocals)
    /\ TelemetryCallReturns(t)
    /\ UNCHANGED <<calls, xmits>>
    /\ TelemetryStepFrame

\* time.time() advances
ClockTick ==
    /\ since_last_flush <= TelemetryFlushInterval
    /\ since_last_flush' = since_last_flush + 1
    /\ UNCHANGED <<counter_vars, calls, xmits, pc, local, completed>>
    /\ TelemetryStepFrame

\* Threads in the telemetry: a client with telemetry in direct mode, whose
\* callers run _report, event, service_check and _send_to_server under no
\* lock. The statements
\* between two labels run as one step: the runs are interleavings that the
\* program has, not all of them.
InitTelemetryThreads ==
    /\ InitWith({MIN_FLUSH_INTERVAL}, {TRUE}, {FALSE})
    /\ _disable_buffering

NextTelemetryThreads ==
    \/ \E t \in Threads :
         \/ TelemetryReport(t)
         \/ TelemetryCount(t)
         \/ TelemetryXmitMain(t)
         \/ TelemetryTest(t)
         \/ TelemetryBuild(t)
         \/ TelemetryXmit(t)
         \/ TelemetryWasSent(t)
         \/ TelemetryWasDropped(t)
    \/ ClockTick

SpecTelemetryThreads == InitTelemetryThreads /\ [][NextTelemetryThreads]_vars

\* ------------------------------------------------------------ serialization
\* A string is the list of its parts. The tags that callers pass: None, no
\* tag, one tag, and two tags of which one has a character that no tag may
\* have; the tags of the client.
CallerTags == {NoneValue, Some(<<>>), Some(<<"a">>), Some(<<"a", "b,c">>)}
ConstantTags == {<<>>, <<"env:x">>}
MetricTypes == {"g", "c"}

\* bool(x) of a list or None, and of a string or None
TruthyList(x) == ~IsNone(x) /\ ValueOf(x) # <<>>
TruthyString(x) == ~IsNone(x) /\ ValueOf(x) # ""

\* text(sample_rate)
text(sample_rate) == IF sample_rate = 10 THEN "1" ELSE "0.5"

\* normalize_tags(tag_list): every tag with its invalid characters replaced
\* by "_"
NormalizedTag(tag) == IF tag = "b,c" THEN "b_c" ELSE tag
normalize_tags(tag_list) ==
    [i \in DOMAIN tag_list |-> NormalizedTag(tag_list[i])]

\* ",".join(tag_list)
RECURSIVE JoinTags(_)
JoinTags(tag_list) ==
    IF tag_list = <<>> THEN <<>>
    ELSE IF Len(tag_list) = 1 THEN tag_list
    ELSE <<Head(tag_list), ",">> \o JoinTags(Tail(tag_list))

\* _add_constant_tags with the constant tags before those of the caller
_add_constant_tags_constant_first(tags) ==
    IF constant_tags # <<>>
    THEN IF TruthyList(tags)
         THEN Some(constant_tags \o ValueOf(tags))
         ELSE Some(constant_tags)
    ELSE tags

\* _add_constant_tags(tags)
_add_constant_tags(tags) ==
    IF constant_tags # <<>>
    THEN IF TruthyList(tags)
         THEN Some(ValueOf(tags) \o constant_tags)
         ELSE Some(constant_tags)
    ELSE tags

\* _serialize_metric(metric, metric_type, value, tags, sample_rate):
\* "%s%s:%s|%s%s%s%s" % (...)
_serialize_metric(metric, metric_type, value, tags, sample_rate) ==
    (IF TruthyString(namespace) THEN <<ValueOf(namespace), ".">> ELSE <<>>)
      \o <<metric, ":", ToString(value), "|", metric_type>>
      \o (IF sample_rate # 10 THEN <<"|@", text(sample_rate)>> ELSE <<>>)
      \o (IF TruthyList(tags)
          THEN <<"|#">> \o JoinTags(normalize_tags(ValueOf(tags)))
          ELSE <<>>)
      \o (IF TruthyString(_container_id)
          THEN <<"|c:", ValueOf(_container_id)>> ELSE <<>>)

\* gauge/increment/...("users.online", 123, tags, sample_rate) on a client in
\* direct mode: _report resolves the sample rate and the tags, serializes the
\* metric and sends the payload
ReportOfMetric(max) ==
    /\ calls < max
    /\ \E metric_type \in MetricTypes, tags \in CallerTags,
          sample_rate \in {NoneValue} \cup {Some(r) : r \in SampleRates},
          sampled_out \in BOOLEAN :
         \E rate \in {IF IsNone(sample_rate) THEN default_sample_rate
                      ELSE ValueOf(sample_rate)} :
         \E payload \in {_serialize_metric("users.online", metric_type, 123,
                                           _add_constant_tags(tags), rate)} :
         \E o1 \in O1(~sampled_out), o2 \in O2(~sampled_out) :
         \E s \in {_report(Client,
                           [id |-> calls + 1, len |-> Len(payload),
                            before_enable |-> FALSE],
                           "value", sampled_out, o1, o2)} :
           /\ sampled_out => rate # 10
           /\ Done(s, [name |-> "report", id |-> calls + 1, len |-> Len(payload),
                       arg |-> IF sampled_out THEN "sampled_out" ELSE "send",
                       metric |-> "users.online", value |-> 123,
                       metric_type |-> metric_type, tags |-> tags,
                       sample_rate |-> sample_rate,
                       payload |-> IF sampled_out THEN <<>> ELSE payload])
    /\ calls' = calls + 1

\* Serialization: clients in direct mode, without telemetry, with or without
\* a namespace, constant tags, a default sample rate other than 1 and a
\* container id; metric calls with and without tags and sample rate.
InitSerializer ==
    /\ InitClient({MIN_FLUSH_INTERVAL}, {FALSE}, {FALSE})
    /\ _disable_buffering
    /\ namespace \in {NoneValue, Some("ns")}
    /\ constant_tags \in ConstantTags
    /\ default_sample_rate \in SampleRates
    /\ _container_id \in {NoneValue, Some("cid")}

NextSerializer == ReportOfMetric(MaxSerializedCalls)

SpecSerializer == InitSerializer /\ [][NextSerializer]_vars

\* ------------------------------------------------------------------- claims
\* The last operation was a call that ran _send_to_buffer(packet): the packet
\* of the call is the last one of the buffer.
Appended ==
    /\ op.id # 0
    /\ _buffer # <<>>
    /\ _buffer[Len(_buffer)].id = op.id

\* The transmit attempts of payloads (not of telemetry packets) among x.
MainXmits(x) == SelectSeq(x, LAMBDA r : ~r.telemetry)

\* C1, as claimed: after any call to _send_to_buffer(packet), whatever the
\* length of the packet and the buffer before the call,
\* _current_buffer_total_size does not exceed _max_payload_size.
C1_TotalSizeNeverExceedsCapacity ==
    Appended => _current_buffer_total_size <= MaxPayloadSize

\* C1, amended: after a call to _send_to_buffer(packet) with
\* len(packet) + 1 <= _max_payload_size, _current_buffer_total_size does not
\* exceed _max_payload_size; after a call with a longer packet the buffer
\* holds that packet alone and _current_buffer_total_size is len(packet) + 1,
\* which exceeds _max_payload_size.
C1_TotalSizeWithinCapacityUnlessOversized ==
    Appended =>
        IF op.len + 1 <= MaxPayloadSize
        THEN _current_buffer_total_size <= MaxPayloadSize
        ELSE /\ Len(_buffer) = 1
             /\ _current_buffer_total_size = op.len + 1
             /\ _current_buffer_total_size > MaxPayloadSize

\* C1, witness: a packet that fits was appended after the flush of a buffer
\* it would have overflowed.
C1_Witness ==
    /\ Appended
    /\ op.len + 1 <= MaxPayloadSize
    /\ flush_calls = 1
    /\ Len(xmits) = 1
    /\ _current_buffer_total_size <= MaxPayloadSize

\* C2: a call of _send_to_buffer(packet) with
\* _current_buffer_total_size + len(packet) + 1 > _max_payload_size calls
\* flush() exactly once before the append, which hands the packets buffered
\* before to the transport as one payload (none when the buffer was empty),
\* and leaves the buffer holding the packet alone with
\* _current_buffer_total_size = len(packet) + 1; a call with a sum within the
\* capacity calls no flush, transmits nothing and appends the packet to the
\* contents of the buffer.
C2_Step ==
    LET packet == [id |-> op'.id, len |-> op'.len, before_enable |-> FALSE]
    IN  (/\ op'.name \in {"report", "event", "service_check"}
         /\ op'.id # 0
         /\ op'.arg # "sampled_out"
         /\ _send = "_send_to_buffer")
        => IF _current_buffer_total_size + op'.len + 1 > MaxPayloadSize
           THEN /\ flush_calls' = 1
                /\ IF _buffer = <<>>
                   THEN xmits' = <<>>
                   ELSE /\ Len(MainXmits(xmits')) = 1
                        /\ MainXmits(xmits')[1].ids = Ids(_buffer)
                /\ _buffer' = <<packet>>
                /\ _current_buffer_total_size' = op'.len + 1
           ELSE /\ flush_calls' = 0
                /\ xmits' = <<>>
                /\ _buffer' = Append(_buffer, packet)
                /\ _current_buffer_total_size' =
                     _current_buffer_total_size + op'.len + 1
C2_FlushOnceThenAppend == [][C2_Step]_vars

\* C2, witness: the call flushed a buffer of two packets and its packet is the
\* sole content of the buffer.
C2_Witness ==
    /\ Appended
    /\ flush_calls = 1
    /\ Len(xmits) = 1
    /\ Len(xmits[1].ids) >= 1
    /\ Len(_buffer) = 1
    /\ _current_buffer_total_size = op.len + 1

\* The packets of a payload.
IdSet(ids) == {ids[k] : k \in 1..Len(ids)}

\* C3: setting disable_buffering from False to True on a client whose buffer
\* holds pending packets hands them all to the transport before the setter
\* returns, leaves the buffer empty and no flush thread running, and the
\* setter returns normally; for every flush_interval, also one at or below
\* MIN_FLUSH_INTERVAL, with which no flush thread was ever started.
C3_Step ==
    (/\ op'.name = "disable_buffering"
     /\ op'.arg = "True"
     /\ ~_disable_buffering
     /\ _buffer # <<>>)
    => /\ raised' = "none"
       /\ Len(MainXmits(xmits')) = 1
       /\ MainXmits(xmits')[1].ids = Ids(_buffer)
       /\ _buffer' = <<>>
       /\ flush_threads_alive' = 0
C3_DisableFlushesPendingPackets == [][C3_Step]_vars

\* C4: across appends, flushes (explicit, on the threshold, by the timer) and
\* toggles of disable_buffering, every buffered packet is in at most one
\* payload handed to the transport, a flush whose send failed is not retried,
\* and after a disable followed by a re-enable a flushed payload holds only
\* packets appended after the re-enable (stated for flushes outside a batch
\* scope, which the claim does not speak of).
C4_Step ==
    /\ \A i \in DOMAIN handed' : handed'[i] <= 1
    /\ toggle_lock_depth = 0 =>
         \A k \in 1..Len(_buffer) :
           _buffer[k].before_enable =>
             \A j \in 1..Len(xmits') : _buffer[k].id \notin IdSet(xmits'[j].ids)
C4_AtMostOncePayloadAndFreshAfterEnable == [][C4_Step]_vars

\* The errors after which _xmit_packet keeps the socket, and those after
\* which it closes it.
TransientErrors == {"timeout", "EAGAIN", "ENOBUFS", "EMSGSIZE"}
FatalErrors == {"resolution", "EOTHER"}

\* The attempt r went to the dedicated telemetry destination.
Dedicated(r) == r.telemetry /\ dedicated_telemetry

\* The cached handle of the destination of attempt r, after the step.
CachedAfter(r) == IF Dedicated(r) THEN telemetry_socket' ELSE socket'

\* The packets of attempt r were dropped: handed over once and not kept.
Dropped(r) ==
    /\ \A id \in IdSet(r.ids) : handed'[id] = 1
    /\ \A k \in 1..Len(_buffer') : _buffer'[k].id \notin IdSet(r.ids)

\* C5: no transport failure (a failure to create or connect the socket, a
\* send error of any errno, a timeout, a resolution failure, an unexpected
\* exception) raises out of a metric call, event, service_check or flush; the
\* only exception such a call raises is the ValueError of an event above the
\* size limit.
C5_OnlyOversizedEventRaises ==
    \/ raised = "none"
    \/ /\ raised = "ValueError"
       /\ op.name = "event"
       /\ op.len > EVENT_SIZE_LIMIT
       /\ xmits = <<>>

\* C5, witness: a call whose payload met an unexpected exception and whose
\* telemetry packet met a socket error returned normally.
C5_Witness ==
    /\ op.name \in {"report", "event", "service_check", "flush"}
    /\ Len(xmits) = 2
    /\ xmits[1].err = "exception"
    /\ xmits[2].err = "EOTHER"
    /\ raised = "none"

\* C6: when a send fails with EAGAIN, ENOBUFS, EMSGSIZE or a socket timeout,
\* the packet is dropped and the cached connection is left as it was, open;
\* the next send to that destination (no connection-fatal error in between)
\* uses the same connection and creates none.
C6_Step ==
    /\ \A i \in 1..Len(xmits') :
         LET r == xmits'[i]
         IN  (r.phase = "send" /\ r.err \in TransientErrors) =>
               /\ r.sock_used # None
               /\ r.sock_before # None => r.sock_used = r.sock_before
               /\ r.sock_after = r.sock_used
               /\ r.sock_used \in r.open_after
               /\ Dropped(r)
               /\ IF i < Len(xmits')
                  THEN LET n == xmits'[i + 1]
                       IN  IF Dedicated(n) = Dedicated(r)
                           THEN /\ n.conn = "cached"
                                /\ n.sock_used = r.sock_used
                                /\ n.open_after \subseteq r.open_after
                           ELSE n.err \notin FatalErrors
                                  => CachedAfter(r) = r.sock_used
                  ELSE CachedAfter(r) = r.sock_used
    /\ (xmits' # <<>> /\ socket # None) =>
         /\ xmits'[1].conn = "cached"
         /\ xmits'[1].sock_used = socket
         /\ xmits'[1].open_after \subseteq open_sockets
C6_TransientErrorKeepsConnection == [][C6_Step]_vars

\* C6, witness: the send of a payload on the cached connection failed with
\* EMSGSIZE and the telemetry packet that followed went out on that
\* connection.
C6_Witness ==
    /\ Len(xmits) = 2
    /\ xmits[1].conn = "cached"
    /\ xmits[1].err = "EMSGSIZE"
    /\ xmits[2].conn = "cached"
    /\ xmits[2].sock_used = xmits[1].sock_used
    /\ xmits[2].err = "none"
    /\ socket = xmits[1].sock_used
    /\ open_sockets = {socket}

\* C7: when a send fails with a resolution error or a socket error other than
\* EAGAIN/ENOBUFS/EMSGSIZE/timeout, the packet is dropped, the connection is
\* closed and its cached handle is None; the next send attempt creates a
\* connection, and no failed packet is handed to the transport again.
C7_Step ==
    /\ \A i \in 1..Len(xmits') :
         LET r == xmits'[i]
         IN  r.err \in FatalErrors =>
               /\ r.sock_after = None
               /\ r.sock_used # None => r.sock_used \notin r.open_after
               /\ Dropped(r)
               /\ IF i < Len(xmits')
                  THEN LET n == xmits'[i + 1]
                       IN  /\ n.sock_before = None
                           /\ n.conn # "cached"
                           /\ n.phase = "send" =>
                                /\ n.sock_used # None
                                /\ n.sock_used \notin r.open_after
                           /\ IdSet(n.ids) \cap IdSet(r.ids) = {}
                  ELSE CachedAfter(r) = None
    /\ (xmits' # <<>> /\ socket = None) =>
         /\ xmits'[1].conn # "cached"
         /\ xmits'[1].phase = "send" =>
              /\ xmits'[1].sock_used # None
              /\ xmits'[1].sock_used \notin open_sockets
    /\ \A id \in DOMAIN handed' : handed'[id] <= 1
C7_FatalErrorClosesConnection == [][C7_Step]_vars

\* C7, witness: the send of a payload on the cached connection failed with a
\* socket error of another errno, and the telemetry packet that followed went
\* out on a connection created for it.
C7_Witness ==
    /\ Len(xmits) = 2
    /\ xmits[1].conn = "cached"
    /\ xmits[1].phase = "send"
    /\ xmits[1].err = "EOTHER"
    /\ xmits[1].ids # <<>>
    /\ xmits[2].conn = "ok"
    /\ xmits[2].err = "none"
    /\ handed[xmits[1].ids[1]] = 1

\* The length of the packet the caller produced for attempt r: the payload
\* flush() joined from the buffer, or the packet of the call.
Produced(r) ==
    IF _buffer # <<>> /\ r.ids = Ids(_buffer)
    THEN Join(_buffer).len
    ELSE op'.len

\* The attempts of a step that C8 is about: a payload, telemetry enabled, the
\* send failed with EMSGSIZE.
OversizedSends ==
    {i \in 1..Len(xmits') :
       /\ ~xmits'[i].telemetry
       /\ xmits'[i].telemetry_on
       /\ xmits'[i].err = "EMSGSIZE"}

\* C8, as claimed: with telemetry enabled, a send of a payload that fails with
\* EMSGSIZE increases bytes_dropped by the length of the packet the caller
\* produced and packets_dropped by 1, changes no other counter and leaves the
\* connection as it was, in direct mode and for a flushed payload.
C8_StepAsClaimed ==
    \A i \in OversizedSends :
      LET r == xmits'[i]
      IN  /\ r.after = [r.before EXCEPT !.bytes_dropped = @ + Produced(r),
                                        !.packets_dropped = @ + 1]
          /\ r.sock_after = r.sock_used
C8_DropCountsCallersLength == [][C8_StepAsClaimed]_vars

\* C8, amended: with telemetry enabled, a send of a payload that fails with
\* EMSGSIZE increases bytes_dropped by the length of what was handed to the
\* transport, the packet the caller produced and the newline _send_to_server
\* appends to it (len(packet) + 1), and packets_dropped by 1, changes no other
\* counter and leaves the connection as it was, in direct mode and for a
\* flushed payload.
C8_Step ==
    \A i \in OversizedSends :
      LET r == xmits'[i]
      IN  /\ r.len = Produced(r) + 1
          /\ r.after = [r.before EXCEPT !.bytes_dropped = @ + Produced(r) + 1,
                                        !.packets_dropped = @ + 1]
          /\ r.sock_used # None
          /\ r.sock_after = r.sock_used
          /\ r.sock_used \in r.open_after
C8_DropCountsLengthWithNewline == [][C8_Step]_vars

\* C8, witness: the flush of a buffer of two packets failed with EMSGSIZE and
\* the dropped counters grew by the payload with its newline and by one.
C8_Witness ==
    /\ op.name = "flush"
    /\ Len(xmits) >= 1
    /\ Len(xmits[1].ids) = 2
    /\ xmits[1].telemetry_on
    /\ xmits[1].err = "EMSGSIZE"
    /\ xmits[1].after.bytes_dropped = xmits[1].before.bytes_dropped + xmits[1].len
    /\ xmits[1].after.packets_dropped = xmits[1].before.packets_dropped + 1

\* C9: for every transmit attempt of a payload, with telemetry enabled exactly
\* one of the pairs (packets_sent, bytes_sent), (packets_dropped,
\* bytes_dropped) grows, by one packet and by the length of the packet
\* transmitted, the sent pair on success and the dropped pair on any failure;
\* with telemetry disabled no counter changes.
C9_OnePairCountsEachAttempt ==
    \A i \in 1..Len(xmits) :
      LET r == xmits[i]
      IN  ~r.telemetry =>
            IF ~r.telemetry_on THEN r.after = r.before
            ELSE IF r.err = "none"
            THEN r.after = [r.before EXCEPT !.packets_sent = @ + 1,
                                            !.bytes_sent = @ + r.len]
            ELSE r.after = [r.before EXCEPT !.packets_dropped = @ + 1,
                                            !.bytes_dropped = @ + r.len]

\* C9, witness: with telemetry enabled, a call whose send succeeded after a
\* call whose send failed; each pair counts one packet.
C9_Witness ==
    /\ _telemetry
    /\ Len(xmits) = 1
    /\ xmits[1].err = "none"
    /\ xmits[1].before.packets_dropped = 1
    /\ xmits[1].before.packets_sent = 0
    /\ packets_sent = 1
    /\ bytes_sent = xmits[1].len
    /\ packets_dropped = 1
    /\ bytes_dropped > 0

\* The counters after the step.
CountersAfter ==
    [metrics_count |-> metrics_count',
     events_count |-> events_count',
     service_checks_count |-> service_checks_count',
     bytes_sent |-> bytes_sent',
     bytes_dropped |-> bytes_dropped',
     packets_sent |-> packets_sent',
     packets_dropped |-> packets_dropped']

\* No counter of b is below its value in a.
NotDecreased(a, b) == \A c \in DOMAIN a : a[c] <= b[c]

\* The successful transmissions of a telemetry packet in the step.
TelemetrySuccesses ==
    {i \in 1..Len(xmits') : xmits'[i].telemetry /\ xmits'[i].err = "none"}

\* Up to a successful transmission of a telemetry packet, no counter
\* decreases.
NoCounterDecreases ==
    /\ TelemetrySuccesses = {} => NotDecreased(Counters(Client), CountersAfter)
    /\ xmits' # <<>> => NotDecreased(Counters(Client), xmits'[1].before)
    /\ \A i \in 1..Len(xmits') :
         /\ NotDecreased(xmits'[i].before, xmits'[i].after)
         /\ i < Len(xmits') => NotDecreased(xmits'[i].after, xmits'[i + 1].before)

\* C10, as claimed: right after a successful telemetry transmission in
\* _send_to_server the seven telemetry counters are zero and _last_flush_time
\* is now; between two successful telemetry transmissions no counter
\* decreases.
C10_StepAsClaimed ==
    /\ TelemetrySuccesses # {} =>
         /\ \A c \in DOMAIN CountersAfter : CountersAfter[c] = 0
         /\ since_last_flush' = 0
    /\ NoCounterDecreases
C10_AllCountersZeroAfterTelemetry == [][C10_StepAsClaimed]_vars

\* C10, amended: when _send_to_server returns after a successful telemetry
\* transmission, metrics_count, events_count, service_checks_count,
\* bytes_dropped and packets_dropped are zero, packets_sent is 1 and
\* bytes_sent is the length of the telemetry packet (the reset is followed by
\* the count of the telemetry packet itself), and _last_flush_time is now;
\* between two successful telemetry transmissions no counter decreases.
C10_Step ==
    /\ \A i \in TelemetrySuccesses :
         /\ CountersAfter =
              [metrics_count |-> 0,
               events_count |-> 0,
               service_checks_count |-> 0,
               bytes_sent |-> xmits'[i].len,
               bytes_dropped |-> 0,
               packets_sent |-> 1,
               packets_dropped |-> 0]
         /\ since_last_flush' = 0
    /\ NoCounterDecreases
C10_CountersResetAfterTelemetry == [][C10_Step]_vars

\* C10, witness: a call counted a metric and a dropped payload, and its
\* telemetry packet went out.
C10_Witness ==
    /\ Len(xmits) = 2
    /\ xmits[1].err # "none"
    /\ xmits[2].telemetry
    /\ xmits[2].err = "none"
    /\ xmits[2].before.metrics_count = 1
    /\ xmits[2].before.packets_dropped = 1
    /\ metrics_count = 0
    /\ packets_dropped = 0
    /\ packets_sent = 1
    /\ bytes_sent = xmits[2].len
    /\ since_last_flush = 0

\* The failed transmissions of a telemetry packet in the step.
TelemetryFailures ==
    {i \in 1..Len(xmits') : xmits'[i].telemetry /\ xmits'[i].err # "none"}

\* The transmissions of a telemetry packet in the step.
TelemetryAttempts == {i \in 1..Len(xmits') : xmits'[i].telemetry}

\* C11: when the transmission of a telemetry packet fails no counter is reset,
\* _last_flush_time is set to now, so that no telemetry packet is attempted
\* before the telemetry interval has elapsed again, and bytes_dropped and
\* packets_dropped grow by the length of the telemetry packet and by 1; a
\* telemetry packet reports the counters as they stand when it is built, the
\* retained counts included.
C11_Step ==
    /\ \A i \in TelemetryFailures :
         LET r == xmits'[i]
         IN  /\ NotDecreased(r.before, CountersAfter)
             /\ CountersAfter =
                  [r.before EXCEPT !.bytes_dropped = @ + r.len,
                                   !.packets_dropped = @ + 1]
             /\ since_last_flush' = 0
             /\ ~(TelemetryFlushInterval < since_last_flush')
    /\ \A i \in TelemetryAttempts :
         LET r == xmits'[i]
         IN  /\ TelemetryFlushInterval < since_last_flush
             /\ NotDecreased(Counters(Client), r.before)
             /\ r.after = r.before
             /\ r.len = TELEMETRY_OVERHEAD
                          + Digits(r.before.metrics_count)
                          + Digits(r.before.events_count)
                          + Digits(r.before.service_checks_count)
                          + Digits(r.before.bytes_sent)
                          + Digits(r.before.bytes_dropped)
                          + Digits(r.before.packets_sent)
                          + Digits(r.before.packets_dropped)
C11_FailedTelemetryKeepsCounters == [][C11_Step]_vars

\* C11, witness: a telemetry packet went out that reports the drop of the
\* telemetry packet before it and the metric counted before that drop.
C11_Witness ==
    /\ Len(xmits) = 2
    /\ xmits[2].telemetry
    /\ xmits[2].err = "none"
    /\ xmits[2].before.metrics_count = 1
    /\ xmits[2].before.packets_dropped = 1
    /\ xmits[2].before.bytes_dropped = TELEMETRY_OVERHEAD + 7
    /\ xmits[1].err = "none"

\* The packet of the last call was handed to the send path: it is in the
\* buffer or in a payload given to the transport.
SentOrBuffered ==
    \/ \E k \in 1..Len(_buffer') : _buffer'[k].id = op'.id
    \/ \E i \in 1..Len(xmits') : op'.id \in IdSet(xmits'[i].ids)

\* C12: an event whose title and message take more than 8192 bytes encoded
\* is rejected with ValueError before anything is appended to the buffer or
\* handed to the transport, and no telemetry counter changes; an event at or
\* below the limit adds 1 to events_count (telemetry enabled) and is sent.
C12_Step ==
    op'.name = "event" =>
        IF op'.encoded > EVENT_SIZE_LIMIT
        THEN /\ raised' = "ValueError"
             /\ xmits' = <<>>
             /\ UNCHANGED <<buffer_vars, counter_vars>>
        ELSE /\ raised' = "none"
             /\ events_count' = events_count + (IF _telemetry THEN 1 ELSE 0)
             /\ SentOrBuffered
C12_EventAboveEncodedLimitRejected == [][C12_Step]_vars

\* C15: assigning disable_buffering the value it has is a no-op: _send, the
\* buffer and its size, the flush thread and the stop signal are unchanged,
\* nothing is flushed or sent and no thread is started or stopped.
C15_Step ==
    (/\ op'.name = "disable_buffering"
     /\ (op'.arg = "True") = _disable_buffering) =>
        /\ UNCHANGED <<buffer_vars, mode_vars, socket_vars, counter_vars, handed>>
        /\ xmits' = <<>>
        /\ flush_calls' = 0
        /\ raised' = "none"
C15_SameValueIsNoOp == [][C15_Step]_vars

\* C15, witness: False was assigned to a client with buffering enabled, a
\* flush thread running and a packet pending, and the packet is still there
\* (an assignment that enabled buffering marks the packets it found).
C15_Witness ==
    /\ op.name = "disable_buffering"
    /\ op.arg = "False"
    /\ ~_disable_buffering
    /\ _flush_thread = "Thread"
    /\ _buffer # <<>>
    /\ ~_buffer[1].before_enable
    /\ xmits = <<>>

\* The step is a metric, event or service check call that reached
\* self._send(packet).
SendingCall ==
    /\ op'.name \in {"report", "event", "service_check"}
    /\ op'.id # 0
    /\ op'.arg # "sampled_out"

\* C18: open_buffer forces the buffered send path, whatever disable_buffering
\* is, and the calls made in the scope keep it: their packets go to the
\* buffer; close_buffer hands every pending packet to the transport, leaves
\* the buffer empty and sets the send path by the flag, direct if buffering
\* is disabled and buffered if it is enabled; the send path is restored and
\* the scope left also when the flush of close_buffer raises.
C18_Step ==
    /\ op'.name = "open_buffer" =>
         /\ _send' = "_send_to_buffer"
         /\ toggle_lock_depth' = toggle_lock_depth + 1
         /\ UNCHANGED _disable_buffering
    /\ (toggle_lock_depth > 0 /\ _send = "_send_to_buffer" /\ SendingCall) =>
         /\ _send' = "_send_to_buffer"
         /\ _buffer' # <<>>
         /\ _buffer'[Len(_buffer')].id = op'.id
         /\ handed'[op'.id] = 0
    /\ op'.name = "close_buffer" =>
         /\ _send' = IF _disable_buffering
                     THEN "_send_to_server" ELSE "_send_to_buffer"
         /\ toggle_lock_depth' = toggle_lock_depth - 1
         /\ UNCHANGED _disable_buffering
         /\ \A k \in 1..Len(_buffer) :
              handed'[_buffer[k].id] = handed[_buffer[k].id] + 1
         /\ raised' = "none" =>
              /\ _buffer' = <<>>
              /\ _current_buffer_total_size' = 0
              /\ Len(xmits') = IF _buffer = <<>> THEN 0 ELSE 1
LiveSockets(destination) ==
    {fd \in open_sockets : sockets_created[fd] = destination}

\* C13: under any interleaving of senders and callers of close_socket there
\* is at most one live socket (created and not closed) for each destination,
\* main and telemetry: of the threads that found the cached handle empty at
\* most one is creating a socket, and a cached handle is replaced (by None or
\* by another socket) only once its socket is closed.
C13_Step ==
    /\ \A destination \in {"main", "telemetry"} :
         Cardinality(LiveSockets(destination)') <= 1
    /\ Cardinality({t \in Threads :
                      pc'[t] \in {"get_socket_create", "get_socket_assign"}}) <= 1
    /\ (socket # None /\ socket' # socket) => socket \notin open_sockets
    /\ (telemetry_socket # None /\ telemetry_socket' # telemetry_socket) =>
         telemetry_socket \notin open_sockets
C13_AtMostOneLiveSocketPerDestination == [][C13_Step]_vars

\* C13, witness: two threads found the handle of the main destination empty
\* after its socket was closed; one has created the next socket and not yet
\* cached it, the other waits for the lock.
C13_Witness ==
    /\ pc["t1"] = "get_socket_assign"
    /\ pc["t2"] = "get_socket"
    /\ ~local["t1"].telemetry
    /\ ~local["t2"].telemetry
    /\ socket = None
    /\ sockets_created = <<"main", "main">>
    /\ open_sockets = {2}

\* The flush threads that were started and have not ended.
AliveFlushThreads ==
    {f \in FlushThreads : pc[f] \notin {"unborn", "created", "dead"}}

\* Thread t is inside _start_flush_thread, inside _stop_flush_thread (the
\* flush that _stop_flush_thread calls included).
InStart(t) == pc[t] \in {"start", "start_create", "start_start"}
InStop(t) ==
    \/ pc[t] \in {"stop", "stop_set", "stop_join", "stop_joining",
                  "stop_forget", "stop_clear"}
    \/ local[t].ret = "stop_set"

\* C14: under any interleaving of assignments to disable_buffering, after the
\* start made by the constructor, the client has at most one flush thread
\* alive; no flush thread is created or started while another one is alive,
\* and no thread is inside _start_flush_thread while another one is inside
\* _stop_flush_thread.
C14_AtMostOneFlushThread ==
    /\ Cardinality(AliveFlushThreads) <= 1
    /\ flush_threads_alive = Cardinality(AliveFlushThreads)
    /\ \A t \in Threads :
         pc[t] \in {"start_create", "start_start"} => AliveFlushThreads = {}
    /\ \A t, u \in Threads : ~(InStart(t) /\ InStop(u))

\* C14, witness: a thread that disables buffering waits in join() for the
\* flush thread, which is still alive, while another thread has assigned
\* False and waits for the toggle lock.
C14_Witness ==
    /\ pc["t1"] = "stop_joining"
    /\ pc["t2"] = "setter"
    /\ ~local["t2"].is_disabled
    /\ AliveFlushThreads # {}

\* C16, the order of _stop_flush_thread as the steps of the threads show it:
\* the stop signal is set by a thread that has returned from its flush; the
\* flush thread ends only while the signal is set and a stopper is at its
\* join; join returns, the handle becomes None and the signal is cleared only
\* once the thread has ended, in this order; when _stop_flush_thread returns
\* no flush thread is alive, the handle is None and the signal is clear.
C16_Step ==
    /\ \A t \in Threads :
         /\ pc'[t] = "stop_set" /\ pc[t] # "stop_set" => pc[t] = "flush_release"
         /\ pc'[t] = "stop_forget" /\ pc[t] # "stop_forget" =>
              /\ _flush_thread_stop
              /\ AliveFlushThreads = {}
         /\ pc[t] = "stop_clear" /\ pc'[t] = "setter_release" =>
              /\ AliveFlushThreads' = {}
              /\ _flush_thread' = "None"
              /\ ~_flush_thread_stop'
    /\ ~_flush_thread_stop /\ _flush_thread_stop' =>
         \E t \in Threads : pc[t] = "stop_set" /\ pc'[t] = "stop_join"
    /\ AliveFlushThreads' # AliveFlushThreads /\ AliveFlushThreads' = {} =>
         /\ _flush_thread_stop
         /\ \E t \in Threads : pc[t] \in {"stop_join", "stop_joining"}
    /\ _flush_thread = "Thread" /\ _flush_thread' = "None" =>
         /\ _flush_thread_stop
         /\ AliveFlushThreads = {}
    /\ _flush_thread_stop /\ ~_flush_thread_stop' =>
         /\ _flush_thread = "None"
         /\ AliveFlushThreads = {}

\* C16: _stop_flush_thread flushes once, then sets the stop signal, then
\* waits for the end of the flush thread, then clears the signal; it always
\* returns (the loop ends once it has seen the signal), and then the thread
\* has ended, the handle is None and the signal is clear, so that the flush
\* thread a later enabling starts goes into its loop.
C16_StopOrderAndTermination ==
    /\ [][C16_Step]_vars
    /\ \A t \in Threads : (pc[t] = "stop") ~> (pc[t] = "setter_release")
    /\ \A f \in FlushThreads :
         (pc[f] = "loop" /\ ~_flush_thread_stop) ~>
           (pc[f] = "sleep" \/ _flush_thread_stop)

\* C16, witness: the first flush thread was stopped and has ended, and the
\* flush thread of a later enabling is in its loop.
C16_Witness ==
    /\ pc["f1"] = "dead"
    /\ pc["f2"] = "sleep"
    /\ _flush_thread = "Thread"
    /\ ~_flush_thread_stop
    /\ ~_disable_buffering

\* C17: once an assignment of True to disable_buffering that stopped the
\* flush thread has returned, the buffer is empty, and it stays empty as long
\* as the client is in direct mode (no assignment and no batch scope in
\* progress), whatever the threads that were inside a metric call during the
\* transition do.
C17_BufferEmptyInDirectMode ==
    (/\ _disable_buffering
     /\ _flush_thread = "None"
     /\ toggle_lock_owner = "free") => _buffer = <<>>

\* Thread t is inside the setter of disable_buffering and holds the toggle
\* lock for it.
InSetter(t) ==
    \/ pc[t] \in {"setter_test", "setter_flag", "setter_send", "setter_release"}
    \/ InStart(t)
    \/ InStop(t)

\* The batch scopes that are open: the holds of the toggle lock that
\* open_buffer took and close_buffer has not released.
OpenScopes ==
    toggle_lock_depth - Cardinality({t \in Threads : InSetter(t)})

\* C19: at most one batch scope is open at any time, whether a second
\* open_buffer comes from another thread or from the thread that opened the
\* first; and while a thread has a scope open no other thread's assignment
\* of disable_buffering changes the flag or the send path.
C19_Step ==
    /\ OpenScopes' <= 1
    /\ \A t \in Threads :
         (pc[t] \in {"setter_flag", "setter_send"} /\ pc'[t] # pc[t]) =>
            toggle_lock_owner = t
C19_AtMostOneScope == [][C19_Step]_vars

\* The appends that have completed before the append of packet id i did:
\* its place in the order of completion, 0 while it has not completed.
CompletionRank(i) ==
    IF \E k \in 1..Len(completed) : completed[k] = i
    THEN CHOOSE k \in 1..Len(completed) : completed[k] = i
    ELSE 0

\* The payloads that a flush handed over: those of the buffer, which holds
\* packets of _send_to_buffer only.
FlushedPayloads ==
    {k \in 1..Len(xmits) :
        \E j \in 1..Len(xmits[k].ids) : CompletionRank(xmits[k].ids[j]) > 0}

\* C20: every payload a flush hands to the transport lists its packets in
\* the order in which their _send_to_buffer calls completed under the buffer
\* lock: each of its packets comes from a completed append, and none of a
\* later-completed append precedes one of an earlier-completed append.
C20_PayloadInCompletionOrder ==
    \A k \in FlushedPayloads :
        LET ids == xmits[k].ids IN
        /\ \A j \in 1..Len(ids) : CompletionRank(ids[j]) > 0
        /\ \A i, j \in 1..Len(ids) :
             i < j => CompletionRank(ids[i]) < CompletionRank(ids[j])

\* a flush has handed over a payload of two packets of two threads whose
\* appends completed in the order opposite to that of their calls
C20_Witness ==
    /\ completed = <<2, 1>>
    /\ \E k \in 1..Len(xmits) : xmits[k].ids = <<2, 1>>

\* The transmissions of the step that are not of a telemetry packet.
MainAttempts == {i \in 1..Len(xmits') : ~xmits'[i].telemetry}

\* C21: with buffering disabled and no batch scope open, a metric call that
\* passes sampling, an event call that passes the size test and a
\* service-check call each make, before they return, exactly one transport
\* send of a payload that is the packet of the call followed by one newline,
\* and leave the contents and the size of the buffer as they were.
C21_Step ==
    (/\ _disable_buffering
     /\ toggle_lock_depth = 0
     /\ op'.name \in {"report", "event", "service_check"}
     /\ op'.id # 0
     /\ op'.arg # "sampled_out") =>
        /\ Cardinality(MainAttempts) = 1
        /\ \A i \in MainAttempts :
             /\ xmits'[i].ids = <<op'.id>>
             /\ xmits'[i].len = op'.len + 1
        /\ flush_calls' = 0
        /\ UNCHANGED buffer_vars
C21_DirectModeSendsEachPacketAlone == [][C21_Step]_vars

\* C21, witness: a client whose buffering was disabled while a packet sat in
\* the buffer after a failed stop sends the packet of a call alone and keeps
\* the buffer as it is.
C21_Witness ==
    /\ _disable_buffering
    /\ toggle_lock_depth = 0
    /\ op.name = "report"
    /\ op.arg = "send"
    /\ Len(xmits) = 1
    /\ xmits[1].ids = <<op.id>>
    /\ _buffer # <<>>

\* The metric calls that the telemetry packets transmitted with success
\* among the first n transmissions have reported.
RECURSIVE ReportedMetrics(_)
ReportedMetrics(n) ==
    IF n = 0 THEN 0
    ELSE ReportedMetrics(n - 1)
           + (IF xmits[n].telemetry /\ xmits[n].err = "none"
              THEN xmits[n].counters.metrics_count ELSE 0)

\* The threads that found the telemetry window elapsed and have not yet
\* closed it (by _reset_telemetry or by the assignment of _last_flush_time).
InTelemetryFlush ==
    {t \in Threads : pc[t] \in {"flush_telemetry", "xmit_telemetry",
                                "telemetry_sent", "telemetry_dropped"}}

\* C22: under concurrent callers the telemetry is never counted twice: at
\* most one telemetry packet is emitted for a telemetry window, and a count
\* that a transmitted telemetry packet reported is not reported again by a
\* later one, so that the telemetry packets transmitted report together no
\* more metric calls than were made.
C22_TelemetryNeverDoubleCounted ==
    /\ Cardinality(InTelemetryFlush) <= 1
    /\ ReportedMetrics(Len(xmits)) <= calls

\* C23: a telemetry packet is attempted right after a send of a main payload,
\* whether that send succeeded or failed, exactly when telemetry is enabled
\* and _last_flush_time + _telemetry_flush_interval < now; it is attempted
\* neither with telemetry disabled nor at the instant at which the interval
\* is just reached, and the send of a telemetry packet is followed by no
\* other telemetry packet.
C23_Step ==
    /\ MainAttempts # {} =>
         (TelemetryAttempts # {} <=>
            (_telemetry /\ since_last_flush > TelemetryFlushInterval))
    /\ \A i \in TelemetryAttempts : i > 1 /\ ~xmits'[i - 1].telemetry
    /\ Cardinality(TelemetryAttempts) <= Cardinality(MainAttempts)
C23_TelemetryAttemptedWhenIntervalElapsed == [][C23_Step]_vars

\* C23, witness: the send of a main payload failed and the telemetry packet
\* was attempted after it.
C23_Witness ==
    /\ Len(xmits) = 2
    /\ ~xmits[1].telemetry
    /\ xmits[1].err = "EOTHER"
    /\ xmits[2].telemetry
    /\ op.name = "flush"

\* The sample rate in force for the last metric call, and the tags of the
\* call followed by the constant tags.
EffectiveRate ==
    IF IsNone(op.sample_rate) THEN default_sample_rate ELSE ValueOf(op.sample_rate)
CombinedTags ==
    (IF IsNone(op.tags) THEN <<>> ELSE ValueOf(op.tags)) \o constant_tags

\* C24: the packet of a metric call is "<namespace.><name>:<value>|<type>",
\* then "|@<rate>" only if the sample rate in force is not 1, then "|#" and
\* the tags, those of the caller first and the constant tags after them,
\* separated by commas, only if there is a tag, then "|c:<containerId>" only
\* if a container id is set; with rate 1, no tag, no namespace and no
\* container id it is "users.online:123|g" for gauge("users.online", 123).
C24_SerializedMetricFormat ==
    (op.name = "report" /\ op.arg = "send") =>
        /\ op.payload =
             (IF namespace = NoneValue THEN <<>> ELSE <<ValueOf(namespace), ".">>)
               \o <<op.metric, ":", "123", "|", op.metric_type>>
               \o (IF EffectiveRate = 10 THEN <<>> ELSE <<"|@", "0.5">>)
               \o [i \in 1..(2 * Len(CombinedTags)) |->
                     IF i = 1 THEN "|#"
                     ELSE IF i % 2 = 1 THEN ","
                     ELSE NormalizedTag(CombinedTags[i \div 2])]
               \o (IF _container_id = NoneValue THEN <<>>
                   ELSE <<"|c:", ValueOf(_container_id)>>)
        /\ (/\ EffectiveRate = 10
            /\ CombinedTags = <<>>
            /\ namespace = NoneValue
            /\ _container_id = NoneValue
            /\ op.metric_type = "g") =>
               op.payload = <<"users.online", ":", "123", "|", "g">>

\* C24, witness: a packet with every optional part, the tags of the caller
\* before the constant tag, was sent.
C24_Witness ==
    /\ op.name = "report"
    /\ op.payload = <<"ns", ".", "users.online", ":", "123", "|", "c",
                      "|@", "0.5", "|#", "a", ",", "b_c", ",", "env:x",
                      "|c:", "cid">>
    /\ Len(xmits) = 1
    /\ xmits[1].len = Len(op.payload) + 1

\* C25: flush() on an empty buffer does nothing: no payload is handed to the
\* transport, no telemetry packet is attempted and no counter changes;
\* flush() on a buffer that is not empty hands the transport one payload,
\* all the packets of the buffer joined by newlines (and ended by the newline
\* that every send adds), and leaves the buffer empty and its size 0 whether
\* the send succeeded or failed.
C25_Step ==
    op'.name = "flush" =>
        IF _buffer = <<>>
        THEN /\ xmits' = <<>>
             /\ UNCHANGED <<buffer_vars, socket_vars, telemetry_vars, handed>>
        ELSE /\ Cardinality(MainAttempts) = 1
             /\ \A i \in MainAttempts :
                  /\ i = 1
                  /\ xmits'[i].ids = [k \in 1..Len(_buffer) |-> _buffer[k].id]
                  /\ xmits'[i].len = SumLen(_buffer) + Len(_buffer)
             /\ _buffer' = <<>>
             /\ _current_buffer_total_size' = 0
C25_FlushHandsOnePayloadAndEmpties == [][C25_Step]_vars

\* C25, witness: a flush handed over two packets in one payload, the send
\* failed and the buffer is empty.
C25_Witness ==
    /\ op.name = "flush"
    /\ Len(xmits) >= 1
    /\ Len(xmits[1].ids) = 2
    /\ xmits[1].err = "EMSGSIZE"
    /\ _buffer = <<>>
    /\ _current_buffer_total_size = 0

\* Thread t is inside a method of the client, or is a flush thread that runs.
Inside(t) == pc[t] \notin {"idle", "unborn", "created", "dead"}

\* Thread t is inside a method and has no step to take: it waits for a lock
\* or for the end of the thread it joins.
Waiting(t) ==
    /\ Inside(t)
    /\ ~ENABLED (ClientStep(t) \/ FlushThreadStep(t) \/ FlushStep(t))

\* The threads whose step can end the wait of thread t: the holders of the
\* locks, and the thread that t joins.
WaitsFor(t) ==
    (({_buffer_lock.owner, toggle_lock_owner} \ {"free", t})
        \cup (IF pc[t] = "stop_joining" THEN {local[t].thread} ELSE {}))

\* A deadlock: a set of threads that all wait, each for threads of the set
\* only.
Deadlocked ==
    \E S \in SUBSET (Threads \cup FlushThreads) :
        /\ S # {}
        /\ \A t \in S : Waiting(t) /\ WaitsFor(t) \subseteq S

\* C26, the locks in every state: the thread that holds the buffer lock does
\* not request the toggle lock and is inside a method (the lock is held by
\* with-statements only), and no set of threads is deadlocked.
C26_Inv ==
    /\ \A t \in Threads \cup FlushThreads :
         _buffer_lock.owner = t =>
            /\ pc[t] \notin {"setter", "open_buffer"}
            /\ Inside(t)
    /\ ~Deadlocked

\* C26, the locks in every step: the toggle lock is acquired by a thread
\* that does not hold the buffer lock, a flush thread never acquires it, and
\* the step that hands a payload to the transport leaves the buffer lock as
\* it is.
C26_Step ==
    /\ toggle_lock_depth' > toggle_lock_depth =>
         /\ _buffer_lock.owner # toggle_lock_owner'
         /\ toggle_lock_owner' \in Threads
    /\ xmits' # xmits => _buffer_lock' = _buffer_lock

\* C26: locks are requested in the order toggle lock, then buffer lock: no
\* thread requests the toggle lock while it holds the buffer lock, the send
\* to the transport does not take the buffer lock again, and no interleaving
\* of reporters, togglers, batch scopes and flush threads (a stop that joins
\* the flush thread under the toggle lock included) reaches a deadlock.
C26_LockOrderAndNoDeadlock == []C26_Inv /\ [][C26_Step]_vars

\* C26, witness: a stopper holds the toggle lock and waits in join() for the
\* flush thread, which waits in flush() for the buffer lock that a reporter
\* holds.
C26_Witness ==
    /\ pc["t1"] = "stop_joining"
    /\ toggle_lock_owner = "t1"
    /\ pc["f1"] = "flush"
    /\ _buffer_lock.owner = "t2"
    /\ Waiting("t1")
    /\ Waiting("f1")

\* C27, in every state: while no thread holds the buffer lock,
\* _current_buffer_total_size is the sum of len(packet) + 1 over the packets
\* of _buffer.
C27_Inv ==
    _buffer_lock.owner = "free" =>
        _current_buffer_total_size = SumLen(_buffer) + Len(_buffer)

\* C27, in every step in which a flush hands its payload over: the payload
\* with the newline the send adds is _current_buffer_total_size long, and
\* no longer than _max_payload_size if each packet of the buffer with its
\* newline is no longer than that.
C27_Step ==
    \A t \in Threads \cup FlushThreads :
        pc[t] = "flush_send" /\ pc'[t] = "flush_reset" =>
            /\ Len(xmits') = Len(xmits) + 1
            /\ LET payload == WithNewline(xmits'[Len(xmits')])
               IN  /\ payload.ids = Ids(_buffer)
                   /\ payload.len = _current_buffer_total_size
                   /\ (\A k \in 1..Len(_buffer) :
                          _buffer[k].len + 1 <= MaxPayloadSize)
                         => payload.len <= MaxPayloadSize

\* C27: whenever the buffer lock is not held, _current_buffer_total_size is
\* the sum of len(packet) + 1 over the buffered packets; so the payload a
\* flush hands to the transport, newline included, has that length, and it
\* does not exceed _max_payload_size when no single packet does.
C27_SizeIsLengthOfPayload == []C27_Inv /\ [][C27_Step]_vars

\* C27, witness: a flush handed over two packets in a payload that is, with
\* its newline, as long as _max_payload_size, and the lock is free again.
C27_Witness ==
    /\ _buffer_lock.owner = "free"
    /\ \E k \in 1..Len(xmits) :
         /\ Len(xmits[k].ids) = 2
         /\ xmits[k].len + 1 = MaxPayloadSize

\* C28, in every step: a packet that leaves the buffer has been included in
\* a payload handed to the transport.
C28_Step ==
    \A k \in 1..Len(_buffer) :
        _buffer[k].id \notin IdSet(Ids(_buffer')) =>
            handed'[_buffer[k].id] >= 1

\* C28: no packet that was appended to the buffer is removed from it without
\* being included in a payload handed to the transport; open_buffer on a
\* client with buffering enabled and packets pending does not discard them.
C28_NoPacketRemovedUnsent == [][C28_Step]_vars

\* C29: whenever the toggle lock is free (no assignment of disable_buffering
\* in progress, no batch scope open), _send is the buffered path exactly if
\* _disable_buffering is False, and a flush thread is alive only if
\* _disable_buffering is False and _flush_interval > MIN_FLUSH_INTERVAL.
C29_SendPathFollowsFlag ==
    toggle_lock_depth = 0 =>
        /\ (_send = "_send_to_buffer") <=> ~_disable_buffering
        /\ flush_threads_alive > 0 =>
             /\ ~_disable_buffering
             /\ _flush_interval > MIN_FLUSH_INTERVAL

\* C29, witness: a client that started with buffering enabled and a flush
\* thread is in direct mode, the toggle lock is free and every caller has
\* returned; the flush thread has ended and _send is the direct path.
C29_Witness ==
    /\ toggle_lock_depth = 0
    /\ \A t \in Threads : Idle(t)
    /\ _disable_buffering
    /\ _send = "_send_to_server"
    /\ pc["f1"] = "dead"
    /\ flush_threads_alive = 0

\* C30, in every operation of a client with a dedicated telemetry
\* destination: after a connection-fatal error of the main send, a telemetry
\* connection that was open and cached is still open and cached (for the
\* telemetry packet of the same operation, if one follows, and afterwards
\* if none does); after a connection-fatal error of the telemetry send, the
\* main connection that the send before it left cached is still open and
\* cached.
C30_Step ==
    (_dedicated_telemetry_destination /\ xmits' # <<>>) =>
        LET main == xmits'[1]
        IN  /\ (/\ ~main.telemetry
                /\ main.err \in FatalErrors
                /\ telemetry_socket # None
                /\ telemetry_socket \in open_sockets) =>
                   /\ telemetry_socket \in main.open_after
                   /\ IF Len(xmits') >= 2
                      THEN xmits'[2].sock_before = telemetry_socket
                      ELSE telemetry_socket' = telemetry_socket
            /\ (/\ Len(xmits') >= 2
                /\ xmits'[2].telemetry
                /\ xmits'[2].err \in FatalErrors
                /\ main.sock_after # None) =>
                   /\ socket' = main.sock_after
                   /\ socket' \in open_sockets'

\* C30: a connection-fatal send error affects only the connection of the
\* destination on which it occurred: one of a main packet leaves a live
\* dedicated telemetry connection open and cached, one of a telemetry packet
\* to a dedicated telemetry destination leaves the main connection open and
\* cached.
C30_FatalErrorClosesOwnConnectionOnly == [][C30_Step]_vars

\* The calls of a kind that have returned.
CompletedCalls(kind) ==
    Cardinality({k \in 1..Len(completed) : completed[k].kind = kind})

\* No telemetry packet was transmitted, so that no _reset_telemetry has run.
NoTelemetryFlush ==
    \A k \in 1..Len(xmits) : ~(xmits[k].telemetry /\ xmits[k].err = "none")

\* C31: with telemetry enabled and no telemetry flush in between, once the
\* calls of any number of concurrent threads have returned, metrics_count is
\* the number of metric calls made (those dropped by sampling included),
\* events_count the number of events and service_checks_count the number of
\* service checks: no increment is lost to a concurrent increment.
C31_NoIncrementLost ==
    (NoTelemetryFlush /\ \A t \in Threads : Idle(t)) =>
        /\ metrics_count = CompletedCalls("metric")
        /\ events_count = CompletedCalls("event")
        /\ service_checks_count = CompletedCalls("service_check")

====
